---- MODULE Spec2Model ----
(***************************************************************************)
(* A model of the registry store: the byte-budgeted LRU cache              *)
(* (store/cache.go), and the raft-replicated bolt store with its FSM       *)
(* (store/store.go).  Both live in src/unnamed/part_000.                   *)
(*                                                                         *)
(* Byte strings are TLA+ strings; a nil []byte is the marker Nil.          *)
(* A uint64 is kept as its signed residue: a negative n stands for         *)
(* 2^64 + n, the value the Go counter holds after wrapping below zero.     *)
(***************************************************************************)
EXTENDS Integers, Sequences, FiniteSets, Bags, TLC

\* lru: the cache under test.  op: the cache method that returned last, with
\* its arguments, its results and the eviction callback's calls.
\* lastAdd: the size of the entry given to the most recent Add.
VARIABLES lru, op, lastAdd

\* The replicated store.  peers is raft's peer set; view and call belong to
\* the two clients; the rest is per node:
\*   raftState  what s.raft.State() returns
\*   queue      the committed log entries raft has yet to hand to the FSM
\*   txn        the bolt write transaction an apply has open (or NoTxn)
\*   db         the committed content of the bolt database
\*   cache      s.cache
\*   session    s.session
\*   meta       s.meta.APIPeers
\*   files      the backup files on the node's disk
\*   view       the reading client's Store.View call: the node it is on, its
\*              position, its result; clean while no apply has committed on
\*              that node since the call began; ack is the node's acked
\*              value of the key when the call began on the leader
\*   call       the writing client's call of a write method: the node, the
\*              position, the result
\*   acked      per (bucket, key), the value of an Update that returned nil
\*              here and that no later committed command has written over
\*   touched    the (bucket, key) pairs applied mutating commands touched
\*   snap       raft's latest snapshot of the FSM: the node that took it, the
\*              fsmSnapshot's database bytes, the bytes written to the sink,
\*              the log entries committed after it, the replica it was
\*              restored on and the file bytes that replica held before
\*   wait       s.ready of every node (a channel or nil), the channels made
\*              and those closed, the nodes with fsm.Restore running, and
\*              the client's Store.WaitForLeader call: the node, its
\*              position, the channel its select waits on, its results
\*   locks      one replica's store mutex, bolt writer lock and cache lock
\*              (the thread holding each, or nil) and, for every thread
\*              using them, the lock calls of the method it runs and how
\*              many of them it has made
\*   metaMu     every node's s.metaMu (the callers holding it shared, the
\*              apply holding it exclusively) and the position of each
\*              APIPeers call and of applySetPeer in their loops over the map
\*   tree       the dashboards stored under one ns of the tree, and the last
\*              call of a dashboard method of Tree: its name, its indexes,
\*              the error it returned and whether it wrote to the store
VARIABLES raftState, peers, queue, txn, db, cache, session, meta, files,
          view, call, acked, touched, snap, wait, locks, metaMu, tree

cacheVars == <<lru, op, lastAdd>>
storeVars == <<raftState, peers, queue, txn, db, cache, session, meta, files,
               view, call, acked, touched, snap, wait, locks, metaMu, tree>>
vars == <<lru, op, lastAdd, raftState, peers, queue, txn, db, cache, session, meta,
          files, view, call, acked, touched, snap, wait, locks, metaMu, tree>>

\* ------------------------------------------------------------------ bounds

\* The budgets NewCache is given in the cache runs: none (0), one that holds
\* a single small entry, and one that holds two.
SmallBudget == 4
LargeBudget == 7
\* The accounted size is followed while it stays within MaxDrift of the
\* bytes the cache holds.
MaxDrift == 2

\* The byte strings the cache runs draw buckets, keys and values from.
Buckets == {"a", "b"}
Pairs == {<<"a", "k">>, <<"a", "kk">>, <<"b", "k">>}
Values == {"v", "www"}

\* A nil []byte (and a nil result in general).
Nil == "<nil>"

\* The nodes of the cluster, and the byte strings the store runs use.
Nodes == {"n1", "n2"}
SBuckets == {"a"}
SKeys == {"k"}
SValues == {"v", "w"}
\* A session key and value, a peer map for UpdateAPIPeers, the address of a
\* node to join or remove, and the name of a backup file.
SSessionKeys == {"sid"}
SSessionValues == {"user"}
SPeerMaps == {[raft \in {"n1:raft"} |-> "n1:api"]}
Addrs == {"n3"}
BackupFiles == {"bak", "missing"}
\* Raft commits a command while no node has MaxQueue entries still to apply.
MaxQueue == 1
\* The writing client makes at most MaxCalls calls, the reading client at
\* most MaxViews.
MaxCalls == 3
MaxViews == 2
MaxSnapshots == 1

\* ------------------------------------------------------------ small helpers

EmptyMap == [x \in {} |-> {}]

MapPut(m, x, y) == [z \in DOMAIN m \cup {x} |-> IF z = x THEN y ELSE m[z]]

MapDel(m, x) == [z \in DOMAIN m \ {x} |-> m[z]]

\* Unsigned comparison a > b of two uint64 held as signed residues.
U64Gt(a, b) == IF (a < 0) = (b < 0) THEN a > b ELSE a < 0

SeqToSet(s) == {s[i] : i \in 1..Len(s)}

\* The sequence s without the elements satisfying (bucket, key) = (b, k).
RECURSIVE ListRemove(_, _, _)
ListRemove(s, b, k) ==
    IF s = <<>> THEN <<>>
    ELSE IF Head(s).bucket = b /\ Head(s).key = k
         THEN ListRemove(Tail(s), b, k)
         ELSE <<Head(s)>> \o ListRemove(Tail(s), b, k)

\* ------------------------------------------------------------------- cache

\* Big stands for a byte string of cacheMaxMemorySize bytes, which is not
\* written out; len gives the length of a byte string.
Big == "<cacheMaxMemorySize bytes>"

len(x) == IF x = Big THEN 1024 * 1024 * 50 ELSE Len(x)

\* entry.Size
EntrySize(e) == len(e.bucket) + len(e.key) + len(e.value)

\* The cache after construction.  evictList has its front at index 1.
\* items[b] is the set of keys indexed under bucket b; the *list.Element a
\* key maps to is the element of evictList holding that (bucket, key).
NewCache(maxSize, onEvict) ==
    [count |-> 0, maxSize |-> maxSize, items |-> EmptyMap,
     evictList |-> <<>>, onEvict |-> onEvict, size |-> 0]

\* The element indexed under (b, k).
Element(c, b, k) ==
    CHOOSE e \in SeqToSet(c.evictList) : e.bucket = b /\ e.key = k

Indexed(c, b, k) == b \in DOMAIN c.items /\ k \in c.items[b]

\* evictList.MoveToFront(e)
MoveToFront(l, e) == <<e>> \o ListRemove(l, e.bucket, e.key)

\* The result of a cache method: the cache after it, what it returned, and
\* the bag of (bucket, key, value) the eviction callback was called with.
Result(c, ok, e, calls) == [c |-> c, ok |-> ok, e |-> e, calls |-> calls]

NoEntry == [bucket |-> Nil, key |-> Nil, value |-> Nil]

\* removeElement with the callback left out.
removeElement_NoCallback(c, e) ==
    LET l == ListRemove(c.evictList, e.bucket, e.key)
    IN  IF e.bucket \in DOMAIN c.items
        THEN Result([c EXCEPT !.evictList = l,
                              !.items[e.bucket] = @ \ {e.key},
                              !.size = @ - EntrySize(e),
                              !.count = @ - 1],
                    TRUE, e, EmptyBag)
        ELSE Result([c EXCEPT !.evictList = l], TRUE, e, EmptyBag)

\* removeElement without the decrement of count.
removeElement_KeepsCount(c, e) ==
    LET l == ListRemove(c.evictList, e.bucket, e.key)
    IN  IF e.bucket \in DOMAIN c.items
        THEN Result([c EXCEPT !.evictList = l,
                              !.items[e.bucket] = @ \ {e.key},
                              !.size = @ - EntrySize(e)],
                    TRUE, e,
                    IF c.onEvict THEN SetToBag({e}) ELSE EmptyBag)
        ELSE Result([c EXCEPT !.evictList = l], TRUE, e, EmptyBag)

removeElement(c, e) ==
    LET l == ListRemove(c.evictList, e.bucket, e.key)
    IN  IF e.bucket \in DOMAIN c.items
        THEN Result([c EXCEPT !.evictList = l,
                              !.items[e.bucket] = @ \ {e.key},
                              !.size = @ - EntrySize(e),
                              !.count = @ - 1],
                    TRUE, e,
                    IF c.onEvict THEN SetToBag({e}) ELSE EmptyBag)
        ELSE Result([c EXCEPT !.evictList = l], TRUE, e, EmptyBag)

removeOldest(c) ==
    IF c.evictList # <<>>
    THEN removeElement(c, c.evictList[Len(c.evictList)])
    ELSE Result(c, FALSE, NoEntry, EmptyBag)

\* Add evicting as soon as the budget is reached (>= for >).
CacheAdd_AtBudget(c, b, k, v) ==
    LET bucket == IF b \in DOMAIN c.items THEN c.items[b] ELSE {}
    IN  IF k \in bucket
        THEN LET ent == [Element(c, b, k) EXCEPT !.value = v]
             IN  Result([c EXCEPT !.evictList = MoveToFront(@, ent)],
                        FALSE, NoEntry, EmptyBag)
        ELSE LET ent == [bucket |-> b, key |-> k, value |-> v]
                 c1 == [c EXCEPT !.evictList = <<ent>> \o @,
                                 !.items = MapPut(@, b, bucket \cup {k}),
                                 !.size = @ + EntrySize(ent),
                                 !.count = @ + 1]
                 evict == c1.maxSize > 0 /\ ~U64Gt(c1.maxSize, c1.size)
                 r == removeOldest(c1)
             IN  IF evict THEN Result(r.c, TRUE, NoEntry, r.calls)
                 ELSE Result(c1, FALSE, NoEntry, EmptyBag)

CacheAdd(c, b, k, v) ==
    LET bucket == IF b \in DOMAIN c.items THEN c.items[b] ELSE {}
    IN  IF k \in bucket
        THEN LET ent == [Element(c, b, k) EXCEPT !.value = v]
             IN  Result([c EXCEPT !.evictList = MoveToFront(@, ent)],
                        FALSE, NoEntry, EmptyBag)
        ELSE LET ent == [bucket |-> b, key |-> k, value |-> v]
                 c1 == [c EXCEPT !.evictList = <<ent>> \o @,
                                 !.items = MapPut(@, b, bucket \cup {k}),
                                 !.size = @ + EntrySize(ent),
                                 !.count = @ + 1]
                 evict == c1.maxSize > 0 /\ U64Gt(c1.size, c1.maxSize)
                 r == removeOldest(c1)
             IN  IF evict THEN Result(r.c, TRUE, NoEntry, r.calls)
                 ELSE Result(c1, FALSE, NoEntry, EmptyBag)

\* Get returning the value without moving the element to the front.
CacheGet_NoTouch(c, b, k) ==
    IF Indexed(c, b, k)
    THEN Result(c, TRUE, Element(c, b, k), EmptyBag)
    ELSE Result(c, FALSE, NoEntry, EmptyBag)

CacheGet(c, b, k) ==
    IF Indexed(c, b, k)
    THEN LET ent == Element(c, b, k)
         IN  Result([c EXCEPT !.evictList = MoveToFront(@, ent)],
                    TRUE, ent, EmptyBag)
    ELSE Result(c, FALSE, NoEntry, EmptyBag)

CacheContains(c, b, k) ==
    IF b \in DOMAIN c.items THEN k \in c.items[b] ELSE FALSE

CachePeek(c, b, k) ==
    IF Indexed(c, b, k)
    THEN Result(c, TRUE, Element(c, b, k), EmptyBag)
    ELSE Result(c, FALSE, NoEntry, EmptyBag)

\* The loop of RemoveBucket over the keys ks still to visit.  Go visits a
\* map in an unspecified order; the callback calls are kept as a bag and the
\* cache left behind does not depend on the order.
RECURSIVE removeEach(_, _, _, _)
removeEach(c, b, ks, calls) ==
    IF ks = {} THEN Result(c, TRUE, NoEntry, calls)
    ELSE LET k == CHOOSE x \in ks : TRUE
             r == removeElement(c, Element(c, b, k))
         IN  removeEach(r.c, b, ks \ {k}, calls (+) r.calls)

CacheRemoveBucket(c, b) ==
    IF b \in DOMAIN c.items
    THEN LET r == removeEach(c, b, c.items[b], EmptyBag)
         IN  Result([r.c EXCEPT !.items = MapDel(@, b)], TRUE, NoEntry, r.calls)
    ELSE Result(c, FALSE, NoEntry, EmptyBag)

CacheRemove(c, b, k) ==
    IF Indexed(c, b, k)
    THEN removeElement(c, Element(c, b, k))
    ELSE Result(c, FALSE, NoEntry, EmptyBag)

CacheRemoveOldest(c) == removeOldest(c)

CacheGetOldest(c) ==
    IF c.evictList # <<>>
    THEN Result(c, TRUE, c.evictList[Len(c.evictList)], EmptyBag)
    ELSE Result(c, FALSE, NoEntry, EmptyBag)

CacheLen(c) == Len(c.evictList)

\* The loop of Keys: ent walks the list from Back() by Prev(), pos being its
\* position in evictList (0 once ent is nil); keys[i] = ... is an assignment
\* to an element of the slice and panics when i is not below len(keys).
RECURSIVE keysLoop(_, _, _, _)
keysLoop(c, pos, keys, i) ==
    IF pos = 0 THEN [keys |-> keys, panicked |-> FALSE]
    ELSE IF i >= Len(keys) THEN [keys |-> keys, panicked |-> TRUE]
    ELSE keysLoop(c, pos - 1,
                  [keys EXCEPT ![i + 1] = c.evictList[pos].bucket \o "-" \o c.evictList[pos].key],
                  i + 1)

\* Keys: var keys []string is a nil slice, of length 0.
CacheKeys(c) == keysLoop(c, Len(c.evictList), <<>>, 0)

\* The (bucket, key) pairs the index holds.
IndexedPairs(c) ==
    UNION {{<<b, k>> : k \in c.items[b]} : b \in DOMAIN c.items}

\* Purge without the reset of count.
CachePurge_KeepCount(c) ==
    LET triples == {[bucket |-> p[1], key |-> p[2],
                     value |-> Element(c, p[1], p[2]).value] : p \in IndexedPairs(c)}
        kept == {b \in DOMAIN c.items : c.items[b] = {}}
    IN  Result([c EXCEPT !.items = [b \in kept |-> {}],
                         !.size = 0,
                         !.evictList = <<>>],
               TRUE, NoEntry,
               IF c.onEvict THEN SetToBag(triples) ELSE EmptyBag)

\* Purge calls the callback for every indexed key and deletes from items
\* every bucket that holds a key; a bucket whose map is empty stays.
CachePurge(c) ==
    LET triples == {[bucket |-> p[1], key |-> p[2],
                     value |-> Element(c, p[1], p[2]).value] : p \in IndexedPairs(c)}
        kept == {b \in DOMAIN c.items : c.items[b] = {}}
    IN  Result([c EXCEPT !.items = [b \in kept |-> {}],
                         !.count = 0,
                         !.size = 0,
                         !.evictList = <<>>],
               TRUE, NoEntry,
               IF c.onEvict THEN SetToBag(triples) ELSE EmptyBag)

\* ------------------------------------------------------- the bolt engine

\* A database is a function from the names of its buckets to the buckets,
\* a bucket a function from its keys to their values.

\* tx.Bucket(name) # nil
HasBucket(d, name) == name \in DOMAIN d

\* b.Get(key): nil when the key is absent.
BucketGet(d, name, key) ==
    IF key \in DOMAIN d[name] THEN d[name][key] ELSE Nil

\* The error of b.Put(key, value), or Nil.
PutError(key) == IF key = Nil \/ key = "" THEN "key required" ELSE Nil

BucketPut(d, name, key, value) == [d EXCEPT ![name] = MapPut(@, key, value)]

\* b.Delete(key)
BucketDelete(d, name, key) == [d EXCEPT ![name] = MapDel(@, key)]

\* --------------------------------------------------------------- commands

\* commandType
update == 0
batch == 1
createBucket == 2
removeBucket == 3
removeKey == 4
createBucketIfNotExist == 5
setSession == 6
delSession == 7
setPeer == 8
restore == 9

ErrNotLeader == "node is not the leader"
bucketNotFound == "bucket not found"

Row(b, k, v) == [Bucket |-> b, Key |-> k, Value |-> v]

databaseSub(name, rows) == [Name |-> name, Batch |-> rows]

sessionSub(k, v) == [Key |-> k, Value |-> v]

\* An interface{} value is a string for a Go string, "int:" or "float64:"
\* before the digits for a Go number of that type, and Nil.
StartsWith(str, prefix) ==
    Len(str) >= Len(prefix) /\ SubSeq(str, 1, Len(prefix)) = prefix

After(str, prefix) == SubSeq(str, Len(prefix) + 1, Len(str))

\* json.Marshal of an interface{}: a number of any type is written as its
\* digits, a string as a JSON string.
jsonValue(x) ==
    IF StartsWith(x, "int:") THEN "number:" \o After(x, "int:")
    ELSE IF StartsWith(x, "float64:") THEN "number:" \o After(x, "float64:")
    ELSE x

\* json.Unmarshal into an interface{}: a JSON number becomes a float64, a
\* JSON string a string.
jsonInterface(token) ==
    IF StartsWith(token, "number:") THEN "float64:" \o After(token, "number:")
    ELSE token

\* json.Marshal of a payload.  A field tagged omitempty is left out when it
\* is nil or empty; "fields" names the fields written.
MarshalSub(typ, d) ==
    IF typ \in {setSession, delSession}
    THEN [fields |-> {f \in {"key", "value"} :
                        IF f = "key" THEN d.Key # Nil ELSE d.Value # Nil},
          key |-> jsonValue(d.Key), value |-> jsonValue(d.Value)]
    ELSE IF typ = setPeer
    THEN [fields |-> {"peers"}, peers |-> d]
    ELSE [fields |-> {f \in {"name", "batch"} :
                        IF f = "name" THEN d.Name # Nil /\ d.Name # ""
                        ELSE d.Batch # <<>>},
          name |-> d.Name, batch |-> d.Batch]

\* newCommand followed by json.Marshal(c): typ is omitempty too, and update
\* is 0.
newCommand(t, d) ==
    [fields |-> (IF t # 0 THEN {"typ"} ELSE {}) \cup {"sub"},
     typ |-> t, sub |-> MarshalSub(t, d)]

\* json.Unmarshal(l.Data, &c): a field left out keeps its zero value.
UnmarshalTyp(data) == IF "typ" \in data.fields THEN data.typ ELSE 0

\* json.Unmarshal(sub, &d) for a databaseSub.
UnmarshalDatabaseSub(sub) ==
    [Name |-> IF "name" \in sub.fields THEN sub.name ELSE Nil,
     Batch |-> IF "batch" \in sub.fields THEN sub.batch ELSE <<>>]

\* json.Unmarshal(sub, &d) for a sessionSub.
UnmarshalSessionSub(sub) ==
    [Key |-> IF "key" \in sub.fields THEN jsonInterface(sub.key) ELSE Nil,
     Value |-> IF "value" \in sub.fields THEN jsonInterface(sub.value) ELSE Nil]

\* -------------------------------------------------------------------- FSM

\* What an apply function works on, and what it leaves: the database its
\* transaction would commit, the cache, the session table, the peer map and
\* the error it returns.
Applied(st, d, cch, err) ==
    [db |-> d, cache |-> cch, session |-> st.session, meta |-> st.meta,
     files |-> st.files, err |-> err]

\* applyUpdate rejecting only a payload without rows.
applyUpdate_FirstRow(st, sub) ==
    LET rows == UnmarshalDatabaseSub(sub).Batch
    IN  IF Len(rows) = 0
        THEN Applied(st, st.db, st.cache, "update just accept 1 row data")
        ELSE IF ~HasBucket(st.db, rows[1].Bucket)
        THEN Applied(st, st.db, st.cache, bucketNotFound)
        ELSE LET err == PutError(rows[1].Key)
             IN  Applied(st,
                         IF err = Nil
                         THEN BucketPut(st.db, rows[1].Bucket, rows[1].Key, rows[1].Value)
                         ELSE st.db,
                         CacheRemove(st.cache, rows[1].Bucket, rows[1].Key).c,
                         err)

\* applyUpdate taking a missing bucket for nothing to do.
applyUpdate_IgnoresMissingBucket(st, sub) ==
    LET rows == UnmarshalDatabaseSub(sub).Batch
    IN  IF Len(rows) # 1
        THEN Applied(st, st.db, st.cache, "update just accept 1 row data")
        ELSE IF ~HasBucket(st.db, rows[1].Bucket)
        THEN Applied(st, st.db, st.cache, Nil)
        ELSE LET err == PutError(rows[1].Key)
             IN  Applied(st,
                         IF err = Nil
                         THEN BucketPut(st.db, rows[1].Bucket, rows[1].Key, rows[1].Value)
                         ELSE st.db,
                         CacheRemove(st.cache, rows[1].Bucket, rows[1].Key).c,
                         err)

\* applyUpdate leaving the cache as it is.
applyUpdate_KeepsCache(st, sub) ==
    LET rows == UnmarshalDatabaseSub(sub).Batch
    IN  IF Len(rows) # 1
        THEN Applied(st, st.db, st.cache, "update just accept 1 row data")
        ELSE IF ~HasBucket(st.db, rows[1].Bucket)
        THEN Applied(st, st.db, st.cache, bucketNotFound)
        ELSE LET err == PutError(rows[1].Key)
             IN  Applied(st,
                         IF err = Nil
                         THEN BucketPut(st.db, rows[1].Bucket, rows[1].Key, rows[1].Value)
                         ELSE st.db,
                         st.cache,
                         err)

applyUpdate(st, sub) ==
    LET rows == UnmarshalDatabaseSub(sub).Batch
    IN  IF Len(rows) # 1
        THEN Applied(st, st.db, st.cache, "update just accept 1 row data")
        ELSE IF ~HasBucket(st.db, rows[1].Bucket)
        THEN Applied(st, st.db, st.cache, bucketNotFound)
        ELSE LET err == PutError(rows[1].Key)
             IN  Applied(st,
                         IF err = Nil
                         THEN BucketPut(st.db, rows[1].Bucket, rows[1].Key, rows[1].Value)
                         ELSE st.db,
                         CacheRemove(st.cache, rows[1].Bucket, rows[1].Key).c,
                         err)

\* applyRemoveKey deleting the key only when cache.Remove found it cached.
applyRemoveKey_OnlyIfCached(st, sub) ==
    LET rows == UnmarshalDatabaseSub(sub).Batch
    IN  IF Len(rows) # 1
        THEN Applied(st, st.db, st.cache, "delete key just accept 1 row data")
        ELSE IF ~HasBucket(st.db, rows[1].Bucket)
        THEN Applied(st, st.db, st.cache, bucketNotFound)
        ELSE LET rm == CacheRemove(st.cache, rows[1].Bucket, rows[1].Key)
             IN  Applied(st,
                         IF rm.ok
                         THEN BucketDelete(st.db, rows[1].Bucket, rows[1].Key)
                         ELSE st.db,
                         rm.c, Nil)

applyRemoveKey(st, sub) ==
    LET rows == UnmarshalDatabaseSub(sub).Batch
    IN  IF Len(rows) # 1
        THEN Applied(st, st.db, st.cache, "delete key just accept 1 row data")
        ELSE IF ~HasBucket(st.db, rows[1].Bucket)
        THEN Applied(st, st.db, st.cache, bucketNotFound)
        ELSE Applied(st,
                     BucketDelete(st.db, rows[1].Bucket, rows[1].Key),
                     CacheRemove(st.cache, rows[1].Bucket, rows[1].Key).c,
                     Nil)

\* The loop of applyBatch inside its transaction: d is the transaction's
\* view of the database, cch the cache.
RECURSIVE batchRows(_, _, _)
batchRows(d, cch, rows) ==
    IF rows = <<>> THEN [db |-> d, cache |-> cch, err |-> Nil]
    ELSE LET row == Head(rows)
         IN  IF ~HasBucket(d, row.Bucket)
             THEN [db |-> d, cache |-> cch, err |-> bucketNotFound]
             ELSE IF PutError(row.Key) # Nil
             THEN [db |-> d, cache |-> cch, err |-> PutError(row.Key)]
             ELSE batchRows(BucketPut(d, row.Bucket, row.Key, row.Value),
                            CacheRemove(cch, row.Bucket, row.Key).c,
                            Tail(rows))

\* applyBatch keeping the rows written before the failing one.
applyBatch_NoRollback(st, sub) ==
    LET r == batchRows(st.db, st.cache, UnmarshalDatabaseSub(sub).Batch)
    IN  Applied(st, r.db, r.cache, r.err)

\* db.Batch commits when the function returns nil and rolls back otherwise.
applyBatch(st, sub) ==
    LET r == batchRows(st.db, st.cache, UnmarshalDatabaseSub(sub).Batch)
    IN  Applied(st, IF r.err = Nil THEN r.db ELSE st.db, r.cache, r.err)

applyCreateBucket(st, sub) ==
    LET name == UnmarshalDatabaseSub(sub).Name
        cch == CacheRemoveBucket(st.cache, name).c
    IN  IF HasBucket(st.db, name)
        THEN Applied(st, st.db, cch, "create bucket: bucket already exists")
        ELSE IF name = Nil \/ name = ""
        THEN Applied(st, st.db, cch, "create bucket: bucket name required")
        ELSE Applied(st, MapPut(st.db, name, EmptyMap), cch, Nil)

\* applyCreateBucketIfNotExist putting an empty bucket in place of the one
\* that exists.
applyCreateBucketIfNotExist_Recreate(st, sub) ==
    LET name == UnmarshalDatabaseSub(sub).Name
        cch == CacheRemoveBucket(st.cache, name).c
    IN  IF name = Nil \/ name = ""
        THEN Applied(st, st.db, cch,
                     "create bucket if not exist: bucket name required")
        ELSE Applied(st, MapPut(st.db, name, EmptyMap), cch, Nil)

applyCreateBucketIfNotExist(st, sub) ==
    LET name == UnmarshalDatabaseSub(sub).Name
        cch == CacheRemoveBucket(st.cache, name).c
    IN  IF HasBucket(st.db, name)
        THEN Applied(st, st.db, cch, Nil)
        ELSE IF name = Nil \/ name = ""
        THEN Applied(st, st.db, cch,
                     "create bucket if not exist: bucket name required")
        ELSE Applied(st, MapPut(st.db, name, EmptyMap), cch, Nil)

applyRemoveBucket(st, sub) ==
    LET name == UnmarshalDatabaseSub(sub).Name
    IN  IF ~HasBucket(st.db, name)
        THEN Applied(st, st.db, st.cache, "remove bucket: bucket not found")
        ELSE Applied(st, MapDel(st.db, name),
                     CacheRemoveBucket(st.cache, name).c, Nil)

\* session.Set, session.Delete: the session table is a map.
SessionSet(m, k, v) == MapPut(m, k, v)

SessionDelete(m, k) == MapDel(m, k)

SessionGet(m, k) == IF k \in DOMAIN m THEN m[k] ELSE Nil

applySetSession(st, sub) ==
    LET d == UnmarshalSessionSub(sub)
    IN  [Applied(st, st.db, st.cache, Nil)
            EXCEPT !.session = SessionSet(st.session, d.Key, d.Value)]

applyDelSession(st, sub) ==
    LET d == UnmarshalSessionSub(sub)
    IN  [Applied(st, st.db, st.cache, Nil)
            EXCEPT !.session = SessionDelete(st.session, d.Key)]

applySetPeer(st, sub) ==
    [Applied(st, st.db, st.cache, Nil)
        EXCEPT !.meta = [x \in DOMAIN st.meta \cup DOMAIN sub.peers |->
                            IF x \in DOMAIN sub.peers THEN sub.peers[x]
                            ELSE st.meta[x]]]

\* applyRestore: the database is closed, the backup file copied over the
\* database file, and the deferred function reopens the database and purges
\* the cache on every path past the Close.
applyRestore(st, sub) ==
    LET file == UnmarshalDatabaseSub(sub).Name
        cch == CachePurge(st.cache).c
    IN  IF file \notin DOMAIN st.files
        THEN Applied(st, st.db, cch, "open: no such file or directory")
        ELSE Applied(st, st.files[file], cch, Nil)

\* fsm.Apply
fsmApply(st, data) ==
    LET typ == UnmarshalTyp(data)
    IN  CASE typ = update -> applyUpdate(st, data.sub)
          [] typ = batch -> applyBatch(st, data.sub)
          [] typ = createBucket -> applyCreateBucket(st, data.sub)
          [] typ = removeKey -> applyRemoveKey(st, data.sub)
          [] typ = removeBucket -> applyRemoveBucket(st, data.sub)
          [] typ = createBucketIfNotExist -> applyCreateBucketIfNotExist(st, data.sub)
          [] typ = setSession -> applySetSession(st, data.sub)
          [] typ = delSession -> applyDelSession(st, data.sub)
          [] typ = setPeer -> applySetPeer(st, data.sub)
          [] typ = restore -> applyRestore(st, data.sub)
          [] OTHER -> Applied(st, st.db, st.cache, "unrecognized command op")

\* ------------------------------------------------------------ the store

\* cacheMaxMemorySize
cacheMaxMemorySize == 1024 * 1024 * 50

SPairs == SBuckets \X SKeys

\* The rows and the batches the clients submit.
SRows == {Row(p[1], p[2], v) : p \in SPairs, v \in SValues}

SBatches ==
    {<<>>} \cup {<<r>> : r \in SRows} \cup ({<<r, q>> : r \in SRows, q \in SRows} \ {<<r, r>> : r \in SRows})

NoTxn == [open |-> FALSE, db |-> EmptyMap, err |-> Nil]

NoData == [fields |-> {}]

\* Channels are numbered from 1 as they are made; a nil channel is 0.
NilChan == 0

\* No channel made, no restore running and WaitForLeader not called.
NoWait ==
    [pc |-> "idle", n |-> Nil, leader |-> "", err |-> Nil, ch |-> NilChan,
     ready |-> [n \in Nodes |-> NilChan], made |-> 0, closed |-> {}, restoring |-> {}]

\* The threads that use the locks of a replica, and the locks: the store
\* mutex, the writer lock a bolt write transaction holds from Begin(true) to
\* Commit or Rollback, and the cache mutex.
Threads == {"View", "ViewPrefix", "Backup", "Snapshot", "Apply"}
LockOrder == <<"mu", "tx", "cache">>

\* No lock held and no thread in a method.
NoLocks ==
    [owner |-> [l \in SeqToSet(LockOrder) |-> Nil],
     does |-> [t \in Threads |-> <<>>],
     at |-> [t \in Threads |-> 0]]

\* The clients calling Store.APIPeers, and the raft addresses UpdateAPIPeers
\* names.
Callers == {"c1", "c2"}
RaftAddrs == {"n2", "n3"}

\* s.metaMu unlocked, no APIPeers call and no applySetPeer running.
NoMetaLock ==
    [readers |-> {}, writer |-> FALSE,
     pc |-> [t \in Callers |-> "idle"],
     raftPeers |-> [t \in Callers |-> {}],
     todo |-> [t \in Callers |-> {}],
     apiPeers |-> [t \in Callers |-> EmptyMap],
     sub |-> EmptyMap, left |-> {}, fatal |-> FALSE]

\* No dashboard stored under the ns (GetDashboard returns a nil list) and no
\* dashboard method called yet.
NoTree ==
    [dashboards |-> <<>>,
     ret |-> [op |-> "", dIndex |-> 0, panelIndex |-> 0, targetIndex |-> 0,
              err |-> Nil, wrote |-> FALSE]]

\* No snapshot taken yet.
NoSnapshot ==
    [pc |-> "none", from |-> Nil, database |-> <<>>, sink |-> "", after |-> <<>>,
     to |-> Nil, old |-> <<>>, err |-> Nil, count |-> 0, closed |-> {}]

\* The reading client before its first View, and the writing client before
\* its first call.
NoView ==
    [pc |-> "idle", n |-> Nil, b |-> Nil, k |-> Nil, value |-> Nil,
     err |-> Nil, clean |-> FALSE, ack |-> Nil, count |-> 0]

NoCall ==
    [pc |-> "idle", n |-> Nil, method |-> Nil, data |-> NoData, ret |-> Nil,
     fsm |-> "none", count |-> 0]

\* The store of every node after New and Open.
InitStore ==
    /\ raftState = [n \in Nodes |-> "Follower"]
    /\ peers = Nodes
    /\ queue = [n \in Nodes |-> <<>>]
    /\ txn = [n \in Nodes |-> NoTxn]
    /\ db = [n \in Nodes |-> EmptyMap]
    /\ cache = [n \in Nodes |-> NewCache(cacheMaxMemorySize, FALSE)]
    /\ session = [n \in Nodes |-> EmptyMap]
    /\ meta = [n \in Nodes |-> EmptyMap]
    /\ view = NoView
    /\ call = NoCall
    /\ acked = [n \in Nodes |-> [p \in SPairs |-> Nil]]
    /\ touched = [n \in Nodes |-> {}]
    /\ snap = NoSnapshot
    /\ wait = NoWait
    /\ locks = NoLocks
    /\ metaMu = [n \in Nodes |-> NoMetaLock]
    /\ tree = NoTree

\* --- raft, as the store sees it

\* A node wins an election: raft keeps at most one leader.
BecomeLeader(n) ==
    /\ \A m \in Nodes : raftState[m] # "Leader"
    /\ raftState' = [raftState EXCEPT ![n] = "Leader"]
    /\ UNCHANGED <<cacheVars, tree, metaMu, locks, wait, snap, peers, queue, txn, db, cache, session, meta, files, view, call,
                   acked, touched>>

StepDown(n) ==
    /\ raftState[n] = "Leader"
    /\ raftState' = [raftState EXCEPT ![n] = "Follower"]
    /\ UNCHANGED <<cacheVars, tree, metaMu, locks, wait, snap, peers, queue, txn, db, cache, session, meta, files, view, call,
                   acked, touched>>

\* A follower times out and stands for election; a candidate that loses
\* falls back.
BecomeCandidate(n) ==
    /\ raftState[n] = "Follower"
    /\ raftState' = [raftState EXCEPT ![n] = "Candidate"]
    /\ UNCHANGED <<cacheVars, tree, metaMu, locks, wait, snap, peers, queue, txn, db, cache, session, meta,
                   files, view, call, acked, touched>>

LoseElection(n) ==
    /\ raftState[n] = "Candidate"
    /\ raftState' = [raftState EXCEPT ![n] = "Follower"]
    /\ UNCHANGED <<cacheVars, tree, metaMu, locks, wait, snap, peers, queue, txn, db, cache, session, meta,
                   files, view, call, acked, touched>>

\* The (bucket, key) pairs of SPairs a command writes when it is applied.
Touches(data) ==
    LET typ == UnmarshalTyp(data)
        d == UnmarshalDatabaseSub(data.sub)
    IN  IF typ \in {update, removeKey, batch}
        THEN {p \in SPairs : \E i \in 1..Len(d.Batch) :
                  d.Batch[i].Bucket = p[1] /\ d.Batch[i].Key = p[2]}
        ELSE IF typ = removeBucket THEN {p \in SPairs : p[1] = d.Name}
        ELSE IF typ = restore THEN SPairs
        ELSE {}

\* --- the write methods

Done(n, err) ==
    [pc |-> "done", n |-> n, method |-> Nil, data |-> NoData, ret |-> err,
     fsm |-> "none", count |-> call.count]

\* The writing client is between calls and has calls left.
CanCall == call.pc \in {"idle", "done"} /\ call.count < MaxCalls

\* The client calls a method that returns err without proposing.
Return(n, method, err) ==
    /\ CanCall
    /\ call' = [Done(n, err) EXCEPT !.count = @ + 1]
    /\ UNCHANGED <<cacheVars, tree, metaMu, locks, wait, snap, peers, raftState, queue, txn, db, cache, session, meta, files,
                   view, acked, touched>>

\* Submit without the check of s.raft.State().
Submit_Unchecked(n, method, t, d) ==
    /\ CanCall
    /\ call' = [pc |-> "propose", n |-> n, method |-> method,
                data |-> newCommand(t, d), ret |-> Nil, fsm |-> "none",
                count |-> call.count + 1]
    /\ UNCHANGED <<cacheVars, tree, metaMu, locks, wait, snap, peers, raftState, queue, txn, db, cache, session,
                   meta, files, view, acked, touched>>

\* A write method from its first line to its call of s.raft.Apply: a node
\* that is not the leader returns ErrNotLeader.
Submit(n, method, t, d) ==
    IF raftState[n] # "Leader"
    THEN Return(n, method, ErrNotLeader)
    ELSE /\ CanCall
         /\ call' = [pc |-> "propose", n |-> n, method |-> method,
                     data |-> newCommand(t, d), ret |-> Nil, fsm |-> "none",
                     count |-> call.count + 1]
         /\ UNCHANGED <<cacheVars, tree, metaMu, locks, wait, snap, peers, raftState, queue, txn, db, cache, session, meta,
                        files, view, acked, touched>>

UpdateRow(n, bucket, key, value) ==
    Submit(n, "Update", update, databaseSub(Nil, <<Row(bucket, key, value)>>))

Update(n) == \E r \in SRows : UpdateRow(n, r.Bucket, r.Key, r.Value)

\* Update with a value as large as the cache's budget.
UpdateBig(n) == \E p \in SPairs : UpdateRow(n, p[1], p[2], Big)

\* Batch without the check of len(rows).
Batch_NoEmptyCheck(n) ==
    \E rows \in SBatches : Submit(n, "Batch", batch, databaseSub(Nil, rows))

Batch(n) ==
    \E rows \in SBatches :
        IF raftState[n] = "Leader" /\ Len(rows) = 0
        THEN Return(n, "Batch", "no data in batch")
        ELSE Submit(n, "Batch", batch, databaseSub(Nil, rows))

CreateBucket(n) ==
    \E name \in SBuckets :
        Submit(n, "CreateBucket", createBucket, databaseSub(name, <<>>))

CreateBucketIfNotExist(n) ==
    \E name \in SBuckets :
        Submit(n, "CreateBucketIfNotExist", createBucketIfNotExist,
               databaseSub(name, <<>>))

RemoveKey(n) ==
    \E p \in SPairs :
        Submit(n, "RemoveKey", removeKey, databaseSub(Nil, <<Row(p[1], p[2], Nil)>>))

RemoveBucket(n) ==
    \E name \in SBuckets :
        Submit(n, "RemoveBucket", removeBucket, databaseSub(name, <<>>))

\* s.raft.Apply(b, raftTimeout) on the leader: the entry is committed and
\* goes to every node's FSM.  A committed command voids the acknowledged
\* value of the pairs it writes.  Raft keeps the entries committed after
\* its latest snapshot.
RaftApply ==
    /\ call.pc = "propose"
    /\ raftState[call.n] = "Leader"
    /\ \A m \in Nodes : Len(queue[m]) < MaxQueue
    /\ queue' = [m \in Nodes |-> Append(queue[m], call.data)]
    /\ call' = [call EXCEPT !.pc = "wait"]
    /\ acked' = [m \in Nodes |-> [p \in SPairs |->
                    IF p \in Touches(call.data) THEN Nil ELSE acked[m][p]]]
    /\ view' = IF <<view.b, view.k>> \in Touches(call.data)
               THEN [view EXCEPT !.ack = Nil] ELSE view
    /\ snap' = IF snap.pc = "none" THEN snap
               ELSE [snap EXCEPT !.after = Append(@, call.data)]
    /\ UNCHANGED <<cacheVars, tree, metaMu, locks, wait, peers, raftState, txn, db, cache, session, meta, files, touched>>

\* s.raft.Apply fails: leadership was lost after the check (ErrNotLeader),
\* or the entry could not be enqueued within raftTimeout.
RaftApplyFails ==
    /\ call.pc = "propose"
    /\ \E err \in {ErrNotLeader, "timed out enqueuing operation"} :
          /\ err = ErrNotLeader => raftState[call.n] # "Leader"
          /\ call' = Done(call.n, err)
    /\ UNCHANGED <<cacheVars, tree, metaMu, locks, wait, snap, peers, raftState, queue, txn, db, cache, session, meta, files,
                   view, acked, touched>>

\* --- the FSM

StateOf(n) ==
    [db |-> db[n], cache |-> cache[n], session |-> session[n],
     meta |-> meta[n], files |-> files[n]]

\* fsm.Apply up to the commit of its bolt transaction: the apply function has
\* taken f.mu, run inside the transaction and changed the cache, the session
\* table and the peer map, which are not transactional.
ErrDatabaseNotOpen == "database not open"

(* A command applied after Restore has left the database closed: bolt's
   Update and Batch return ErrDatabaseNotOpen before they run the function
   they are given, so only what the handler does outside the transaction
   happens. applyRestore closes a closed database without error and always
   re-opens it. *)
applyClosed(st, data) ==
    LET typ == UnmarshalTyp(data)
        r == fsmApply(st, data)
    IN  IF typ \in {update, removeKey}
        THEN Applied(st, st.db, st.cache,
                     IF Len(UnmarshalDatabaseSub(data.sub).Batch) # 1 THEN r.err
                     ELSE ErrDatabaseNotOpen)
        ELSE IF typ \in {batch, removeBucket}
        THEN Applied(st, st.db, st.cache, ErrDatabaseNotOpen)
        ELSE IF typ \in {createBucket, createBucketIfNotExist}
        THEN Applied(st, st.db, r.cache, ErrDatabaseNotOpen)
        ELSE r

FsmApplyBegin(n) ==
    /\ queue[n] # <<>>
    /\ ~txn[n].open
    /\ LET r == IF n \in snap.closed THEN applyClosed(StateOf(n), Head(queue[n]))
                ELSE fsmApply(StateOf(n), Head(queue[n]))
       IN  /\ txn' = [txn EXCEPT ![n] = [open |-> TRUE, db |-> r.db, err |-> r.err]]
           /\ cache' = [cache EXCEPT ![n] = r.cache]
           /\ session' = [session EXCEPT ![n] = r.session]
           /\ meta' = [meta EXCEPT ![n] = r.meta]
    /\ snap' = IF UnmarshalTyp(Head(queue[n])) = restore
               THEN [snap EXCEPT !.closed = @ \ {n}]
               ELSE snap
    /\ UNCHANGED <<cacheVars, tree, metaMu, locks, wait, peers, raftState, queue, db, files, view, call, acked, touched>>

\* The transaction commits (or rolls back), f.mu is released and Apply
\* returns its fsmGenericResponse, which raft hands to the call that proposed
\* the entry and is waiting on this node.
FsmApplyCommit(n) ==
    /\ txn[n].open
    /\ LET data == Head(queue[n])
           row == UnmarshalDatabaseSub(data.sub).Batch[1]
           answers == call.pc = "wait" /\ call.n = n
           acks == /\ answers
                   /\ call.method = "Update"
                   /\ txn[n].err = Nil
                   /\ \A i \in 2..Len(queue[n]) :
                          <<row.Bucket, row.Key>> \notin Touches(queue[n][i])
       IN  /\ db' = [db EXCEPT ![n] = txn[n].db]
           /\ txn' = [txn EXCEPT ![n] = NoTxn]
           /\ queue' = [queue EXCEPT ![n] = Tail(@)]
           /\ call' = IF answers
                      THEN [Done(n, IF call.method = "UpdateAPIPeers" THEN Nil
                                    ELSE txn[n].err)
                               EXCEPT !.fsm = txn[n].err]
                      ELSE call
           /\ acked' = IF acks
                       THEN [acked EXCEPT ![n][<<row.Bucket, row.Key>>] = row.Value]
                       ELSE acked
           /\ touched' = IF txn[n].err = Nil
                         THEN [touched EXCEPT ![n] = @ \cup Touches(data)]
                         ELSE touched
           /\ view' = IF view.n = n THEN [view EXCEPT !.clean = FALSE] ELSE view
    /\ UNCHANGED <<cacheVars, tree, metaMu, locks, wait, snap, peers, raftState, cache, session, meta, files>>

\* --- Store.View

\* View's first statement, s.cache.Get: a hit returns the cached value.
ViewGet(n) ==
    \E p \in SPairs :
        /\ view.pc \in {"idle", "done", "scanned", "got"}
        /\ view.count < MaxViews
        /\ LET r == CacheGet(cache[n], p[1], p[2])
               started == [pc |-> "read", n |-> n, b |-> p[1], k |-> p[2],
                           value |-> Nil, err |-> Nil, clean |-> TRUE,
                           ack |-> IF raftState[n] = "Leader" THEN acked[n][p] ELSE Nil,
                           count |-> view.count + 1]
           IN  /\ cache' = [cache EXCEPT ![n] = r.c]
               /\ view' = IF r.ok
                          THEN [started EXCEPT !.pc = "done", !.value = r.e.value]
                          ELSE started
        /\ UNCHANGED <<cacheVars, tree, metaMu, locks, wait, snap, peers, raftState, queue, txn, db, session, meta, files, call,
                       acked, touched>>

\* s.db.View: a read transaction sees the committed database.  A nil value
\* (a missing bucket or key) is returned without touching the cache.  The
\* value is taken as a copy: the slice b.Get returns aliases bolt's page,
\* and the reuse of that page by later transactions is not followed.
\* While applyRestore has the database closed the transaction cannot begin.
ViewRead ==
    /\ view.pc = "read"
    /\ view' = IF \/ txn[view.n].open /\ UnmarshalTyp(Head(queue[view.n])) = restore
                  \/ view.n \in snap.closed
               THEN [view EXCEPT !.pc = "done", !.err = ErrDatabaseNotOpen]
               ELSE IF ~HasBucket(db[view.n], view.b)
               THEN [view EXCEPT !.pc = "done", !.err = bucketNotFound]
               ELSE LET value == BucketGet(db[view.n], view.b, view.k)
                    IN  [view EXCEPT !.pc = IF value # Nil THEN "add" ELSE "done",
                                     !.value = value]
    /\ UNCHANGED <<cacheVars, tree, metaMu, locks, wait, snap, peers, raftState, queue, txn, db, cache, session, meta, files,
                   call, acked, touched>>

\* s.cache.Add(bucket, key, value), and the return.
ViewAdd ==
    /\ view.pc = "add"
    /\ cache' = [cache EXCEPT ![view.n] =
                    CacheAdd(cache[view.n], view.b, view.k, view.value).c]
    /\ view' = [view EXCEPT !.pc = "done"]
    /\ UNCHANGED <<cacheVars, tree, metaMu, locks, wait, snap, peers, raftState, queue, txn, db, session, meta, files, call,
                   acked, touched>>

\* Reads against writes of single keys, large values included.
NextView ==
    \/ \E n \in Nodes :
        \/ BecomeLeader(n)
        \/ StepDown(n)
        \/ CreateBucket(n)
        \/ Update(n)
        \/ UpdateBig(n)
        \/ RemoveKey(n)
        \/ FsmApplyBegin(n)
        \/ FsmApplyCommit(n)
        \/ ViewGet(n)
    \/ RaftApply
    \/ RaftApplyFails
    \/ ViewRead
    \/ ViewAdd

\* --- the FSM fed by raft with log entries of any shape

\* A bucket no command creates, and batches that fail after a first row on
\* an existing bucket: at a row for the missing bucket, at a row with an
\* empty key.
MissingBucket == "z"

FailingBatches ==
    {<<r, Row(MissingBucket, r.Key, r.Value)>> : r \in SRows}
        \cup {<<r, Row(r.Bucket, "", r.Value)>> : r \in SRows}

\* Command types no constant names.
UnknownTypes == {0 - 1, restore + 1}

\* The log entries raft delivers in the runs of the FSM on its own: commands
\* the write methods produce (bucket creations with an empty name included),
\* Update and RemoveKey commands with no row or with two, and commands of
\* unknown type.
LogEntries ==
    {newCommand(t, databaseSub(b, <<>>)) :
        t \in {createBucket, createBucketIfNotExist}, b \in SBuckets \cup {""}}
        \cup {newCommand(update, databaseSub(Nil, rows)) : rows \in SBatches}
        \cup {newCommand(batch, databaseSub(Nil, rows)) :
                  rows \in (SBatches \ {<<>>}) \cup FailingBatches}
        \cup {newCommand(removeKey, databaseSub(Nil, rows)) :
                  rows \in {<<>>} \cup {<<Row(p[1], p[2], Nil)>> : p \in SPairs}
                              \cup {<<Row(p[1], p[2], Nil), Row(p[1], p[2], Nil)>> : p \in SPairs}}
        \cup {newCommand(setSession, sessionSub(k, v)) :
                  k \in SSessionKeys, v \in SSessionValues}
        \cup {newCommand(t, databaseSub(b, <<r>>)) :
                  t \in UnknownTypes, b \in SBuckets, r \in SRows}

\* Raft commits a log entry and hands it to the FSM of every node.
Deliver ==
    \E data \in LogEntries :
        /\ \A m \in Nodes : Len(queue[m]) < MaxQueue
        /\ queue' = [m \in Nodes |-> Append(queue[m], data)]
        /\ acked' = [m \in Nodes |-> [p \in SPairs |->
                        IF p \in Touches(data) THEN Nil ELSE acked[m][p]]]
        /\ view' = IF <<view.b, view.k>> \in Touches(data)
                   THEN [view EXCEPT !.ack = Nil] ELSE view
        /\ UNCHANGED <<cacheVars, tree, metaMu, locks, wait, snap, peers, raftState, txn, db, cache, session,
                       meta, files, call, touched>>

NextApply ==
    \/ \E n \in Nodes :
        \/ FsmApplyBegin(n)
        \/ FsmApplyCommit(n)
        \/ ViewGet(n)
    \/ Deliver
    \/ ViewRead
    \/ ViewAdd

\* --- the write methods outside the database

SetSession(n) ==
    \E k \in SSessionKeys, v \in SSessionValues :
        Submit(n, "SetSession", setSession, sessionSub(k, v))

DelSession(n) ==
    \E k \in SSessionKeys :
        Submit(n, "DelSession", delSession, sessionSub(k, Nil))

\* The keys and values of any type the session methods are called with.
GoKeys == SSessionKeys \cup {"int:7"}
GoValues == SSessionValues \cup {"int:7"}

SetSessionAny(n) ==
    \E k \in GoKeys, v \in GoValues :
        Submit(n, "SetSession", setSession, sessionSub(k, v))

DelSessionAny(n) ==
    \E k \in GoKeys :
        Submit(n, "DelSession", delSession, sessionSub(k, Nil))

\* Store.GetSession: s.session.Get(k), and once more when it returned nil.
\* The reading client's record holds the key and the value returned.
GetSession(n) ==
    \E k \in GoKeys :
        /\ view.pc \in {"idle", "done", "scanned", "got"}
        /\ view.count < MaxViews
        /\ LET v == SessionGet(session[n], k)
           IN  view' = [pc |-> IF v = Nil THEN "retry" ELSE "got", n |-> n,
                        b |-> Nil, k |-> k, value |-> v, err |-> Nil,
                        clean |-> TRUE, ack |-> Nil, count |-> view.count + 1]
        /\ UNCHANGED <<cacheVars, tree, metaMu, locks, wait, snap, peers, raftState, queue, txn, db, cache,
                       session, meta, files, call, acked, touched>>

GetSessionRetry ==
    /\ view.pc = "retry"
    /\ view' = [view EXCEPT !.pc = "got",
                            !.value = SessionGet(session[view.n], view.k)]
    /\ UNCHANGED <<cacheVars, tree, metaMu, locks, wait, snap, peers, raftState, queue, txn, db, cache,
                   session, meta, files, call, acked, touched>>

\* The session methods with raft and the FSM.
NextSession ==
    \/ \E n \in Nodes :
        \/ BecomeLeader(n)
        \/ SetSessionAny(n)
        \/ DelSessionAny(n)
        \/ FsmApplyBegin(n)
        \/ FsmApplyCommit(n)
        \/ GetSession(n)
    \/ GetSessionRetry
    \/ RaftApply
    \/ RaftApplyFails

Restore(n) ==
    \E backupfile \in BackupFiles :
        Submit(n, "Restore", restore, databaseSub(backupfile, <<>>))

UpdateAPIPeers(n) ==
    \E m \in SPeerMaps : Submit(n, "UpdateAPIPeers", setPeer, m)

\* Join: s.raft.AddPeer(addr) and its future, which fails for a known peer.
Join(n) ==
    \E addr \in Addrs :
        IF raftState[n] # "Leader" THEN Return(n, "Join", ErrNotLeader)
        ELSE IF addr \in peers THEN Return(n, "Join", "peer already known")
        ELSE /\ CanCall
             /\ call' = [Done(n, Nil) EXCEPT !.count = @ + 1]
             /\ peers' = peers \cup {addr}
             /\ UNCHANGED <<cacheVars, tree, metaMu, locks, wait, snap, raftState, queue, txn, db, cache,
                            session, meta, files, view, acked, touched>>

\* Remove: s.raft.RemovePeer(addr) and its future, which fails for an
\* unknown peer.
Remove(n) ==
    \E addr \in Addrs :
        IF raftState[n] # "Leader" THEN Return(n, "Remove", ErrNotLeader)
        ELSE IF addr \notin peers THEN Return(n, "Remove", "peer is unknown")
        ELSE /\ CanCall
             /\ call' = [Done(n, Nil) EXCEPT !.count = @ + 1]
             /\ peers' = peers \ {addr}
             /\ UNCHANGED <<cacheVars, tree, metaMu, locks, wait, snap, raftState, queue, txn, db, cache,
                            session, meta, files, view, acked, touched>>

\* Backup: under s.mu and a bolt write transaction, which wait for an apply
\* in progress, the database file is copied and its bytes returned.
Backup(n) ==
    IF raftState[n] # "Leader" THEN Return(n, "Backup", ErrNotLeader)
    ELSE IF n \in snap.closed THEN Return(n, "Backup", ErrDatabaseNotOpen)
    ELSE /\ CanCall
         /\ ~txn[n].open
         /\ call' = [Done(n, Nil) EXCEPT !.count = @ + 1,
                                         !.data = [fields |-> {"file"}, file |-> db[n]]]
         /\ UNCHANGED <<cacheVars, tree, metaMu, locks, wait, snap, peers, raftState, queue, txn, db, cache,
                        session, meta, files, view, acked, touched>>

\* The operator saves the bytes Backup returned as the file the Restore
\* command will name, on the disk of the node that took the backup or of
\* every node.
SaveBackup ==
    /\ call.pc = "done"
    /\ call.data # NoData
    /\ \E ns \in {{call.n}, Nodes} :
          files' = [n \in Nodes |-> IF n \in ns
                                    THEN MapPut(files[n], "bak", call.data.file)
                                    ELSE files[n]]
    /\ call' = [call EXCEPT !.data = NoData]
    /\ UNCHANGED <<cacheVars, tree, metaMu, locks, wait, snap, peers, raftState, queue, txn, db, cache, session,
                   meta, view, acked, touched>>

\* Backup and Restore among writes and cached reads.
NextBackup ==
    \/ \E n \in Nodes :
        \/ BecomeLeader(n)
        \/ Update(n)
        \/ Backup(n)
        \/ Restore(n)
        \/ FsmApplyBegin(n)
        \/ FsmApplyCommit(n)
        \/ ViewGet(n)
    \/ SaveBackup
    \/ RaftApply
    \/ RaftApplyFails
    \/ ViewRead
    \/ ViewAdd

\* --- snapshots: fsm.Snapshot, fsmSnapshot.Persist, fsm.Restore

\* The bytes of a string of lower-case letters.
Letters == "abcdefghijklmnopqrstuvwxyz"
CharCode(c) == 96 + (CHOOSE i \in 1..Len(Letters) : SubSeq(Letters, i, i) = c)
StringBytes(str) == [i \in 1..Len(str) |-> CharCode(SubSeq(str, i, i))]

\* Byte strings in the order of bytes.Compare.
RECURSIVE bytesLess(_, _)
bytesLess(x, y) ==
    IF y = <<>> THEN FALSE
    ELSE IF x = <<>> THEN TRUE
    ELSE IF Head(x) # Head(y) THEN Head(x) < Head(y)
    ELSE bytesLess(Tail(x), Tail(y))

\* The names of a set in key order, as a bolt cursor visits them.
RECURSIVE inOrder(_)
inOrder(names) ==
    IF names = {} THEN <<>>
    ELSE LET first == CHOOSE x \in names :
                         \A y \in names : ~bytesLess(StringBytes(y), StringBytes(x))
         IN  <<first>> \o inOrder(names \ {first})

\* The database file: a sequence of bytes that is a function of the
\* committed content.  The layout stands for bolt's pages: the number of
\* buckets, then per bucket in key order its name, the number of its keys
\* and its keys with their values, each string with its length before it.
field(str) == <<Len(str)>> \o StringBytes(str)

RECURSIVE keysImage(_, _)
keysImage(bucket, ks) ==
    IF ks = <<>> THEN <<>>
    ELSE field(Head(ks)) \o field(bucket[Head(ks)]) \o keysImage(bucket, Tail(ks))

RECURSIVE bucketsImage(_, _)
bucketsImage(d, bs) ==
    IF bs = <<>> THEN <<>>
    ELSE field(Head(bs)) \o <<Cardinality(DOMAIN d[Head(bs)])>>
            \o keysImage(d[Head(bs)], inOrder(DOMAIN d[Head(bs)]))
            \o bucketsImage(d, Tail(bs))

\* tx.CopyFile and ioutil.ReadFile: the bytes of the database file.
boltImage(d) == <<Cardinality(DOMAIN d)>> \o bucketsImage(d, inOrder(DOMAIN d))

\* The databases over the model's buckets, keys and values.
Databases ==
    UNION {[bs -> UNION {[ks -> SValues] : ks \in SUBSET SKeys}] : bs \in SUBSET SBuckets}

\* bolt.Open of a file with the given bytes: the content it holds, or an
\* error for bytes that are no database.
boltOpen(bytes) ==
    IF \E d \in Databases : boltImage(d) = bytes
    THEN [ok |-> TRUE, db |-> CHOOSE d \in Databases : boltImage(d) = bytes]
    ELSE [ok |-> FALSE, db |-> EmptyMap]

\* encoding/base64, StdEncoding: the alphabet, and the digit of a character.
encodeStd == "ABCDEFGHIJKLMNOPQRSTUVWXYZabcdefghijklmnopqrstuvwxyz0123456789+/"
Char(i) == SubSeq(encodeStd, i + 1, i + 1)
IsChar(c) == \E i \in 0..63 : Char(i) = c
Index(c) == CHOOSE i \in 0..63 : Char(i) = c

\* EncodeToString without the padding of the last group.
RECURSIVE EncodeToString_NoPadding(_)
EncodeToString_NoPadding(src) ==
    IF Len(src) = 0 THEN ""
    ELSE IF Len(src) = 1
    THEN Char(src[1] \div 4) \o Char((src[1] % 4) * 16)
    ELSE IF Len(src) = 2
    THEN Char(src[1] \div 4) \o Char((src[1] % 4) * 16 + src[2] \div 16)
            \o Char((src[2] % 16) * 4)
    ELSE Char(src[1] \div 4) \o Char((src[1] % 4) * 16 + src[2] \div 16)
            \o Char((src[2] % 16) * 4 + src[3] \div 64) \o Char(src[3] % 64)
            \o EncodeToString_NoPadding(SubSeq(src, 4, Len(src)))

\* base64.StdEncoding.EncodeToString: three bytes make four characters, the
\* last group is padded with "=".
RECURSIVE EncodeToString(_)
EncodeToString(src) ==
    IF Len(src) = 0 THEN ""
    ELSE IF Len(src) = 1
    THEN Char(src[1] \div 4) \o Char((src[1] % 4) * 16) \o "=="
    ELSE IF Len(src) = 2
    THEN Char(src[1] \div 4) \o Char((src[1] % 4) * 16 + src[2] \div 16)
            \o Char((src[2] % 16) * 4) \o "="
    ELSE Char(src[1] \div 4) \o Char((src[1] % 4) * 16 + src[2] \div 16)
            \o Char((src[2] % 16) * 4 + src[3] \div 64) \o Char(src[3] % 64)
            \o EncodeToString(SubSeq(src, 4, Len(src)))

Corrupt == [ok |-> FALSE, bytes |-> <<>>]

\* base64.StdEncoding.DecodeString: groups of four characters, padding only
\* in the last group.
RECURSIVE DecodeString(_)
DecodeString(str) ==
    IF Len(str) = 0 THEN [ok |-> TRUE, bytes |-> <<>>]
    ELSE IF Len(str) < 4 THEN Corrupt
    ELSE LET c1 == SubSeq(str, 1, 1)
             c2 == SubSeq(str, 2, 2)
             c3 == SubSeq(str, 3, 3)
             c4 == SubSeq(str, 4, 4)
         IN  IF ~IsChar(c1) \/ ~IsChar(c2) THEN Corrupt
             ELSE IF c3 = "="
             THEN IF c4 = "=" /\ Len(str) = 4
                  THEN [ok |-> TRUE, bytes |-> <<Index(c1) * 4 + Index(c2) \div 16>>]
                  ELSE Corrupt
             ELSE IF ~IsChar(c3) THEN Corrupt
             ELSE IF c4 = "="
             THEN IF Len(str) = 4
                  THEN [ok |-> TRUE,
                        bytes |-> <<Index(c1) * 4 + Index(c2) \div 16,
                                    (Index(c2) % 16) * 16 + Index(c3) \div 4>>]
                  ELSE Corrupt
             ELSE IF ~IsChar(c4) THEN Corrupt
             ELSE LET rest == DecodeString(SubSeq(str, 5, Len(str)))
                  IN  [ok |-> rest.ok,
                       bytes |-> <<Index(c1) * 4 + Index(c2) \div 16,
                                   (Index(c2) % 16) * 16 + Index(c3) \div 4,
                                   (Index(c3) % 4) * 64 + Index(c4)>> \o rest.bytes]

\* json.Marshal of a []byte: a string of its base64 encoding.
jsonMarshal(database) == "\"" \o EncodeToString(database) \o "\""

\* json.NewDecoder(rc).Decode(&database): the bytes of a base64 string.
jsonDecode(text) ==
    IF Len(text) < 2 \/ SubSeq(text, 1, 1) # "\"" \/ SubSeq(text, Len(text), Len(text)) # "\""
    THEN Corrupt
    ELSE DecodeString(SubSeq(text, 2, Len(text) - 1))

\* fsm.Snapshot: under f.mu and a bolt write transaction, which wait for an
\* apply in progress, the database file is copied and read into the
\* fsmSnapshot.  The entries committed and not yet applied here come after
\* the snapshot.
\* fsm.Snapshot that takes no lock and copies the pages of the transaction
\* in progress.
FsmSnapshot_Unlocked(n) ==
    /\ snap.pc \in {"none", "restored", "restarted"}
    /\ snap.count < MaxSnapshots
    /\ n \notin snap.closed
    /\ snap' = [NoSnapshot EXCEPT !.pc = "taken", !.from = n,
                                  !.database = boltImage(IF txn[n].open THEN txn[n].db
                                                         ELSE db[n]),
                                  !.after = queue[n],
                                  !.count = snap.count + 1,
                                  !.closed = snap.closed]
    /\ UNCHANGED <<cacheVars, tree, metaMu, locks, wait, peers, raftState, queue, txn, db, cache, session,
                   meta, files, view, call, acked, touched>>

FsmSnapshot(n) ==
    /\ snap.pc \in {"none", "restored", "restarted"}
    /\ snap.count < MaxSnapshots
    /\ ~txn[n].open
    /\ n \notin snap.closed
    /\ snap' = [NoSnapshot EXCEPT !.pc = "taken", !.from = n,
                                  !.database = boltImage(db[n]),
                                  !.after = queue[n],
                                  !.count = snap.count + 1,
                                  !.closed = snap.closed]
    /\ UNCHANGED <<cacheVars, tree, metaMu, locks, wait, peers, raftState, queue, txn, db, cache, session,
                   meta, files, view, call, acked, touched>>

\* fsmSnapshot.Persist: the JSON encoding of f.database is written to the
\* sink and the sink closed.
Persist ==
    /\ snap.pc = "taken"
    /\ snap' = [snap EXCEPT !.pc = "persisted", !.sink = jsonMarshal(snap.database)]
    /\ UNCHANGED <<cacheVars, tree, metaMu, locks, wait, peers, raftState, queue, txn, db, cache, session,
                   meta, files, view, call, acked, touched>>

\* fsm.Restore on a follower the leader sends its snapshot to: a follower
\* that has not applied more than the snapshot holds.  Under f.mu the
\* database is closed, the sink's bytes are decoded, written over the
\* database file (ioutil.WriteFile truncates it) and the database is opened
\* again; the entries after the snapshot are what raft applies next.  The
\* cache and the session table are not touched.  On an error Restore returns
\* with the database closed: snap.closed holds the replicas it left so.
restoreInstalls(n) ==
    /\ snap.pc = "persisted"
    /\ n # snap.from
    /\ raftState[snap.from] = "Leader"
    /\ Len(queue[n]) >= Len(snap.after)
    /\ ~(call.pc = "wait" /\ call.n = n)

restoreFile(n) ==
    LET decoded == jsonDecode(snap.sink)
        opened == boltOpen(decoded.bytes)
        ok == decoded.ok /\ opened.ok
    IN  /\ ~txn[n].open
        /\ db' = [db EXCEPT ![n] = IF ok THEN opened.db ELSE @]
        /\ queue' = [queue EXCEPT ![n] = IF ok THEN snap.after ELSE @]
        /\ snap' = [snap EXCEPT !.pc = "restored", !.to = n,
                                !.old = boltImage(db[n]),
                                !.err = IF ~decoded.ok THEN "illegal base64 data"
                                        ELSE IF ~opened.ok THEN "invalid database"
                                        ELSE Nil,
                                !.closed = IF ok THEN @ \ {n} ELSE @ \cup {n}]
        /\ UNCHANGED <<cacheVars, tree, metaMu, locks, peers, raftState, txn, cache, session,
                       meta, files, view, call, acked, touched>>

\* fsm.Restore as one step: f.ready = make(chan struct{}) at its beginning
\* and close(f.ready), f.ready = nil at its return leave s.ready nil.
FsmRestore(n) ==
    /\ restoreInstalls(n)
    /\ n \notin wait.restoring
    /\ restoreFile(n)
    /\ wait' = [wait EXCEPT !.ready[n] = NilChan]

\* fsm.Restore in two steps, for a caller of WaitForLeader to run between
\* them: first f.ready = make(chan struct{}) ...
FsmRestoreBegin(n) ==
    /\ restoreInstalls(n)
    /\ n \notin wait.restoring
    /\ wait' = [wait EXCEPT !.ready[n] = wait.made + 1, !.made = @ + 1,
                            !.restoring = @ \cup {n}]
    /\ UNCHANGED <<cacheVars, tree, metaMu, locks, peers, raftState, queue, txn, db, cache, session,
                   meta, files, view, call, acked, touched, snap>>

\* ... then the rest of Restore under f.mu, and its deferred
\* close(f.ready) and f.ready = nil.
FsmRestoreEnd(n) ==
    /\ n \in wait.restoring
    /\ restoreFile(n)
    /\ wait' = [wait EXCEPT !.closed = @ \cup {wait.ready[n]}, !.ready[n] = NilChan,
                            !.restoring = @ \ {n}]

\* The database writes with raft taking and installing snapshots.
NextSnapshot ==
    \/ \E n \in Nodes :
        \/ BecomeLeader(n)
        \/ StepDown(n)
        \/ CreateBucket(n)
        \/ Update(n)
        \/ RemoveKey(n)
        \/ FsmApplyBegin(n)
        \/ FsmApplyCommit(n)
        \/ FsmSnapshot(n)
        \/ FsmRestore(n)
    \/ Persist
    \/ RaftApply
    \/ RaftApplyFails

\* Restart with the session table kept over the restart.
Restart_KeepsSessions(n) ==
    LET decoded == jsonDecode(snap.sink)
        opened == boltOpen(decoded.bytes)
    IN  /\ snap.pc = "persisted"
        /\ snap.from # n => (raftState[snap.from] = "Leader"
                              /\ Len(queue[n]) >= Len(snap.after))
        /\ ~txn[n].open
        /\ ~(call.pc \in {"propose", "wait"} /\ call.n = n)
        /\ ~(view.pc \in {"read", "add", "retry"} /\ view.n = n)
        /\ raftState' = [raftState EXCEPT ![n] = "Follower"]
        /\ cache' = [cache EXCEPT ![n] = NewCache(cacheMaxMemorySize, FALSE)]
        /\ session' = session
        /\ meta' = [meta EXCEPT ![n] = EmptyMap]
        /\ db' = [db EXCEPT ![n] = opened.db]
        /\ queue' = [queue EXCEPT ![n] = snap.after]
        /\ acked' = [acked EXCEPT ![n] = [p \in SPairs |-> Nil]]
        /\ touched' = [touched EXCEPT ![n] = {}]
        /\ snap' = [snap EXCEPT !.pc = "restarted", !.to = n,
                                !.old = boltImage(db[n]), !.closed = @ \ {n}]
        /\ UNCHANGED <<cacheVars, tree, metaMu, locks, wait, peers, txn, files, view, call>>

\* The process of n restarts with a snapshot in raft's snapshot store, its
\* own or one the leader sends it: New makes an empty cache, session table
\* and peer map, and raft has fsm.Restore install the snapshot and then
\* applies the entries committed after it.
Restart(n) ==
    LET decoded == jsonDecode(snap.sink)
        opened == boltOpen(decoded.bytes)
    IN  /\ snap.pc = "persisted"
        /\ snap.from # n => (raftState[snap.from] = "Leader"
                              /\ Len(queue[n]) >= Len(snap.after))
        /\ ~txn[n].open
        /\ ~(call.pc \in {"propose", "wait"} /\ call.n = n)
        /\ ~(view.pc \in {"read", "add", "retry"} /\ view.n = n)
        /\ raftState' = [raftState EXCEPT ![n] = "Follower"]
        /\ cache' = [cache EXCEPT ![n] = NewCache(cacheMaxMemorySize, FALSE)]
        /\ session' = [session EXCEPT ![n] = EmptyMap]
        /\ meta' = [meta EXCEPT ![n] = EmptyMap]
        /\ db' = [db EXCEPT ![n] = opened.db]
        /\ queue' = [queue EXCEPT ![n] = snap.after]
        /\ acked' = [acked EXCEPT ![n] = [p \in SPairs |-> Nil]]
        /\ touched' = [touched EXCEPT ![n] = {}]
        /\ snap' = [snap EXCEPT !.pc = "restarted", !.to = n,
                                !.old = boltImage(db[n]), !.closed = @ \ {n}]
        /\ UNCHANGED <<cacheVars, tree, metaMu, locks, wait, peers, txn, files, view, call>>

\* The session methods and the Restore command with snapshots and restarts.
NextRestart ==
    \/ \E n \in Nodes :
        \/ BecomeLeader(n)
        \/ SetSession(n)
        \/ Restore(n)
        \/ FsmApplyBegin(n)
        \/ FsmApplyCommit(n)
        \/ FsmSnapshot(n)
        \/ FsmRestore(n)
        \/ Restart(n)
    \/ Persist
    \/ RaftApply
    \/ RaftApplyFails

\* --- Store.WaitForLeader

\* s.raft.Leader(): the address of the leader, "" without one.
Leader == IF \E m \in Nodes : raftState[m] = "Leader"
          THEN CHOOSE m \in Nodes : raftState[m] = "Leader"
          ELSE ""

\* The call begins: the ticker and the two timers start.
WaitForLeader(n) ==
    /\ wait.pc = "idle"
    /\ wait' = [wait EXCEPT !.pc = "poll", !.n = n]
    /\ UNCHANGED <<cacheVars, tree, metaMu, locks, peers, raftState, queue, txn, db, cache, session,
                   meta, files, view, call, acked, touched, snap>>

\* case <-tck.C with a leader known: on to WAITEND.  Without a leader the
\* loop goes round.
Tick ==
    /\ wait.pc = "poll"
    /\ Leader # ""
    /\ wait' = [wait EXCEPT !.pc = "sleep", !.leader = Leader]
    /\ UNCHANGED <<cacheVars, tree, metaMu, locks, peers, raftState, queue, txn, db, cache, session,
                   meta, files, view, call, acked, touched, snap>>

\* case <-tmr.C: the timeout has passed.
LeaderTimeout ==
    /\ wait.pc = "poll"
    /\ wait' = [wait EXCEPT !.pc = "done", !.leader = "",
                            !.err = "wait for leader timeout"]
    /\ UNCHANGED <<cacheVars, tree, metaMu, locks, peers, raftState, queue, txn, db, cache, session,
                   meta, files, view, call, acked, touched, snap>>

\* After time.Sleep: if s.ready != nil, read without a lock.
CheckReady ==
    /\ wait.pc = "sleep"
    /\ wait' = IF wait.ready[wait.n] # NilChan
               THEN [wait EXCEPT !.pc = "select"]
               ELSE [wait EXCEPT !.pc = "done"]
    /\ UNCHANGED <<cacheVars, tree, metaMu, locks, peers, raftState, queue, txn, db, cache, session,
                   meta, files, view, call, acked, touched, snap>>

\* The select evaluates s.ready, a second read, and waits on that channel
\* and on tms.C; a nil channel is never ready.
SelectReady ==
    /\ wait.pc = "select"
    /\ wait' = [wait EXCEPT !.pc = "blocked", !.ch = wait.ready[wait.n]]
    /\ UNCHANGED <<cacheVars, tree, metaMu, locks, peers, raftState, queue, txn, db, cache, session,
                   meta, files, view, call, acked, touched, snap>>

\* case <-s.ready: the channel is closed.
ReadyClosed ==
    /\ wait.pc = "blocked"
    /\ wait.ch \in wait.closed
    /\ wait' = [wait EXCEPT !.pc = "done"]
    /\ UNCHANGED <<cacheVars, tree, metaMu, locks, peers, raftState, queue, txn, db, cache, session,
                   meta, files, view, call, acked, touched, snap>>

\* case <-tms.C: waitSnapshotTimeout has passed since the call began.
SnapshotTimeout ==
    /\ wait.pc = "blocked"
    /\ wait' = [wait EXCEPT !.pc = "done", !.leader = "",
                            !.err = "wait for snapshot timeout"]
    /\ UNCHANGED <<cacheVars, tree, metaMu, locks, peers, raftState, queue, txn, db, cache, session,
                   meta, files, view, call, acked, touched, snap>>

\* WaitForLeader among elections, snapshots and their restores.
NextWait ==
    \/ \E n \in Nodes :
        \/ BecomeLeader(n)
        \/ StepDown(n)
        \/ FsmSnapshot(n)
        \/ FsmRestoreBegin(n)
        \/ FsmRestoreEnd(n)
        \/ WaitForLeader(n)
    \/ Persist
    \/ Tick
    \/ LeaderTimeout
    \/ CheckReady
    \/ SelectReady
    \/ ReadyClosed
    \/ SnapshotTimeout

\* --- Store.ViewPrefix

\* strings.HasPrefix
HasPrefix(str, prefix) ==
    Len(prefix) <= Len(str) /\ SubSeq(str, 1, Len(prefix)) = prefix

\* The key prefixes the reading client scans for.
SPrefixes == {"", "k", "x"}

\* The map ViewPrefix builds from the cursor: the keys of the bucket that
\* have the prefix, which lie together in key order from Seek(keyPrefix) on,
\* without those of empty value.
prefixScan(bucket, keyPrefix) ==
    LET ks == {k \in DOMAIN bucket : HasPrefix(k, keyPrefix) /\ len(bucket[k]) # 0}
    IN  [k \in ks |-> bucket[k]]

\* ViewPrefix: s.db.Begin(true) waits for the write transaction of an apply
\* in progress, and fails while applyRestore has the database closed; the
\* transaction is rolled back on return.  The cache is not consulted.
\* view.value holds the map returned.
ViewPrefix(n) ==
    \E b \in SBuckets, keyPrefix \in SPrefixes :
        LET closed == \/ txn[n].open /\ UnmarshalTyp(Head(queue[n])) = restore
                      \/ n \in snap.closed
        IN  /\ view.pc \in {"idle", "done", "scanned", "got"}
            /\ view.count < MaxViews
            /\ ~txn[n].open \/ closed
            /\ view' = [pc |-> "scanned", n |-> n, b |-> b, k |-> keyPrefix,
                        value |-> IF ~closed /\ HasBucket(db[n], b)
                                  THEN prefixScan(db[n][b], keyPrefix)
                                  ELSE EmptyMap,
                        err |-> IF closed THEN ErrDatabaseNotOpen
                                ELSE IF HasBucket(db[n], b) THEN Nil
                                ELSE bucketNotFound,
                        clean |-> TRUE, ack |-> Nil, count |-> view.count + 1]
            /\ UNCHANGED <<cacheVars, tree, metaMu, locks, wait, snap, peers, raftState, queue, txn, db, cache,
                           session, meta, files, call, acked, touched>>

\* Update of one of two keys with a value or with the empty value.
ScanKeys == {"k", "x"}
ScanValues == {"v", ""}

UpdateScanned(n) ==
    \E b \in SBuckets, k \in ScanKeys, v \in ScanValues : UpdateRow(n, b, k, v)

\* Prefix scans of a bucket that holds several keys and empty values.
NextScan ==
    \/ \E n \in Nodes :
        \/ BecomeLeader(n)
        \/ CreateBucket(n)
        \/ UpdateScanned(n)
        \/ FsmApplyBegin(n)
        \/ FsmApplyCommit(n)
        \/ ViewPrefix(n)
    \/ RaftApply
    \/ RaftApplyFails

\* As many updates as snapshots.
UpdateOnce(n) == Update(n) /\ call.count < MaxSnapshots

\* An update and Views on replicas that start with a key, with raft taking
\* a snapshot and installing it on a follower.
NextInstall ==
    \/ \E n \in Nodes :
        \/ BecomeLeader(n)
        \/ UpdateOnce(n)
        \/ FsmApplyBegin(n)
        \/ FsmApplyCommit(n)
        \/ FsmSnapshot(n)
        \/ FsmRestore(n)
        \/ ViewGet(n)
    \/ Persist
    \/ RaftApply
    \/ ViewRead
    \/ ViewAdd

\* --- s.metaMu and the map s.meta.APIPeers

\* The maps UpdateAPIPeers is called with.
SApiPeers == {[a \in as |-> a \o ":api"] : as \in {{"n3"}, RaftAddrs}}

\* s.metaMu.RLock() returns while no thread holds the lock exclusively.
APIPeersRLock(n, t) ==
    /\ ~metaMu[n].fatal
    /\ metaMu[n].pc[t] = "idle"
    /\ ~metaMu[n].writer
    /\ metaMu' = [metaMu EXCEPT ![n].readers = @ \cup {t}, ![n].pc[t] = "peers"]
    /\ UNCHANGED <<cacheVars, tree, locks, raftState, peers, queue, txn, db, cache, session,
                   meta, files, view, call, acked, touched, snap, wait>>

\* s.peerStore.Peers(), make(map...) and the start of the range over
\* s.meta.APIPeers.
APIPeersPeers(n, t) ==
    /\ ~metaMu[n].fatal
    /\ metaMu[n].pc[t] = "peers"
    /\ metaMu' = [metaMu EXCEPT ![n].pc[t] = "range",
                                ![n].raftPeers[t] = peers,
                                ![n].todo[t] = DOMAIN meta[n],
                                ![n].apiPeers[t] = EmptyMap]
    /\ UNCHANGED <<cacheVars, tree, locks, raftState, peers, queue, txn, db, cache, session,
                   meta, files, view, call, acked, touched, snap, wait>>

\* Another thread is inside its loop over the map of node n.
OthersInMap(n, t) ==
    \/ \E u \in Callers \ {t} : metaMu[n].pc[u] = "range"
    \/ t \in Callers /\ metaMu[n].writer

\* One iteration of the range loop: an entry whose key is no raft peer is
\* deleted from s.meta.APIPeers, any other is copied to the result.  Go
\* visits the keys in no fixed order; a key another thread has deleted
\* meanwhile is not visited.  A delete while another thread is in the map
\* is a data race: the delete takes place or the runtime ends the process
\* (fatal error: concurrent map iteration and map write).
APIPeersRange(n, t) ==
    /\ ~metaMu[n].fatal
    /\ metaMu[n].pc[t] = "range"
    /\ \E k \in metaMu[n].todo[t] :
          IF k \notin DOMAIN meta[n]
          THEN /\ metaMu' = [metaMu EXCEPT ![n].todo[t] = @ \ {k}]
               /\ meta' = meta
          ELSE IF k \notin metaMu[n].raftPeers[t]
          THEN \/ /\ meta' = [meta EXCEPT ![n] = MapDel(@, k)]
                  /\ metaMu' = [metaMu EXCEPT ![n].todo[t] = @ \ {k}]
               \/ /\ OthersInMap(n, t)
                  /\ metaMu' = [metaMu EXCEPT ![n].fatal = TRUE]
                  /\ meta' = meta
          ELSE /\ metaMu' = [metaMu EXCEPT ![n].todo[t] = @ \ {k},
                                           ![n].apiPeers[t] = MapPut(@, k, meta[n][k])]
               /\ meta' = meta
    /\ UNCHANGED <<cacheVars, tree, locks, raftState, peers, queue, txn, db, cache, session,
                   files, view, call, acked, touched, snap, wait>>

\* The loop has ended: return apiPeers, nil and the deferred RUnlock.
APIPeersReturn(n, t) ==
    /\ ~metaMu[n].fatal
    /\ metaMu[n].pc[t] = "range"
    /\ metaMu[n].todo[t] = {}
    /\ metaMu' = [metaMu EXCEPT ![n].readers = @ \ {t}, ![n].pc[t] = "idle"]
    /\ UNCHANGED <<cacheVars, tree, locks, raftState, peers, queue, txn, db, cache, session,
                   meta, files, view, call, acked, touched, snap, wait>>

\* applySetPeer up to f.metaMu.Lock(), which returns while no thread holds
\* the lock.
SetPeerLock(n) ==
    /\ ~metaMu[n].fatal
    /\ ~metaMu[n].writer
    /\ metaMu[n].readers = {}
    /\ \E d \in SApiPeers :
          metaMu' = [metaMu EXCEPT ![n].writer = TRUE, ![n].sub = d, ![n].left = DOMAIN d]
    /\ UNCHANGED <<cacheVars, tree, locks, raftState, peers, queue, txn, db, cache, session,
                   meta, files, view, call, acked, touched, snap, wait>>

\* One iteration of applySetPeer's loop: f.meta.APIPeers[k] = v.
SetPeerMerge(n) ==
    /\ ~metaMu[n].fatal
    /\ metaMu[n].writer
    /\ \E k \in metaMu[n].left :
          /\ meta' = [meta EXCEPT ![n] = MapPut(@, k, metaMu[n].sub[k])]
          /\ metaMu' = [metaMu EXCEPT ![n].left = @ \ {k}]
    /\ UNCHANGED <<cacheVars, tree, locks, raftState, peers, queue, txn, db, cache, session,
                   files, view, call, acked, touched, snap, wait>>

\* The loop has ended: return nil and the deferred Unlock.
SetPeerUnlock(n) ==
    /\ ~metaMu[n].fatal
    /\ metaMu[n].writer
    /\ metaMu[n].left = {}
    /\ metaMu' = [metaMu EXCEPT ![n].writer = FALSE, ![n].sub = EmptyMap]
    /\ UNCHANGED <<cacheVars, tree, locks, raftState, peers, queue, txn, db, cache, session,
                   meta, files, view, call, acked, touched, snap, wait>>

\* The replica whose APIPeers is called.
MetaNodes == {"n1"}

\* APIPeers calls against applySetPeer on one replica while peers join and
\* leave.
NextPeers ==
    \/ \E n \in Nodes :
        \/ BecomeLeader(n)
        \/ Join(n)
        \/ Remove(n)
    \/ \E n \in MetaNodes :
        \/ SetPeerLock(n)
        \/ SetPeerMerge(n)
        \/ SetPeerUnlock(n)
        \/ \E t \in Callers :
            \/ APIPeersRLock(n, t)
            \/ APIPeersPeers(n, t)
            \/ APIPeersRange(n, t)
            \/ APIPeersReturn(n, t)

\* --- the locks

Lock(l) == <<"Lock", l>>
Unlock(l) == <<"Unlock", l>>

\* The lock calls of Store.View: s.cache.Get, and after a miss that read a
\* value s.cache.Add (s.db.View is a read transaction and takes none of
\* the three locks).
ViewHitLocks == <<Lock("cache"), Unlock("cache")>>
ViewLocks == <<Lock("cache"), Unlock("cache"), Lock("cache"), Unlock("cache")>>

\* Store.ViewPrefix: s.db.Begin(true) and the deferred tx.Rollback().
ViewPrefixLocks == <<Lock("tx"), Unlock("tx")>>

\* Backup taking the writer lock before the store mutex.
BackupLocks_WriterFirst == <<Lock("tx"), Lock("mu"), Unlock("mu"), Unlock("tx")>>

\* Store.Backup and fsm.Snapshot: the mutex, Begin(true), Commit or
\* Rollback, the deferred Unlock.
BackupLocks == <<Lock("mu"), Lock("tx"), Unlock("tx"), Unlock("mu")>>
SnapshotLocks == <<Lock("mu"), Lock("tx"), Unlock("tx"), Unlock("mu")>>

\* applyUpdate, applyRemoveKey, applyBatch and applyRemoveBucket: f.mu,
\* f.db.Update or f.db.Batch, the cache method inside the transaction.
applyRowsLocks ==
    <<Lock("mu"), Lock("tx"), Lock("cache"), Unlock("cache"), Unlock("tx"), Unlock("mu")>>

\* applyCreateBucket and applyCreateBucketIfNotExist: f.mu,
\* f.cache.RemoveBucket, then f.db.Update.
applyCreateLocks ==
    <<Lock("mu"), Lock("cache"), Unlock("cache"), Lock("tx"), Unlock("tx"), Unlock("mu")>>

\* applyRestore: f.mu, f.db.Close() (which takes and releases the writer
\* lock), and the deferred f.cache.Purge().
applyRestoreLocks ==
    <<Lock("mu"), Lock("tx"), Unlock("tx"), Lock("cache"), Unlock("cache"), Unlock("mu")>>

\* Thread t enters a method whose lock calls are one of programs.
Enter(t, programs) ==
    /\ locks.does[t] = <<>>
    /\ \E p \in programs : locks' = [locks EXCEPT !.does[t] = p, !.at[t] = 0]
    /\ UNCHANGED <<cacheVars, tree, metaMu, raftState, peers, queue, txn, db, cache, session,
                   meta, files, view, call, acked, touched, snap, wait>>

\* Thread t makes its next lock call: Lock returns when the lock is free,
\* Unlock frees it; after the last call the method returns.
Proceed(t) ==
    /\ locks.does[t] # <<>>
    /\ LET ins == locks.does[t][locks.at[t] + 1]
           last == locks.at[t] + 1 = Len(locks.does[t])
       IN  /\ ins[1] = "Lock" => locks.owner[ins[2]] = Nil
           /\ locks' = [locks EXCEPT !.owner[ins[2]] = IF ins[1] = "Lock" THEN t ELSE Nil,
                                     !.at[t] = IF last THEN 0 ELSE @ + 1,
                                     !.does[t] = IF last THEN <<>> ELSE @]
    /\ UNCHANGED <<cacheVars, tree, metaMu, raftState, peers, queue, txn, db, cache, session,
                   meta, files, view, call, acked, touched, snap, wait>>

ViewLocking == Enter("View", {ViewHitLocks, ViewLocks}) \/ Proceed("View")

ViewPrefixLocking == Enter("ViewPrefix", {ViewPrefixLocks}) \/ Proceed("ViewPrefix")

BackupLocking == Enter("Backup", {BackupLocks}) \/ Proceed("Backup")

SnapshotLocking == Enter("Snapshot", {SnapshotLocks}) \/ Proceed("Snapshot")

ApplyLocking ==
    \/ Enter("Apply", {applyRowsLocks, applyCreateLocks, applyRestoreLocks})
    \/ Proceed("Apply")

\* The threads of one replica taking and releasing its locks.
NextLocks ==
    \/ ViewLocking
    \/ ViewPrefixLocking
    \/ BackupLocking
    \/ SnapshotLocking
    \/ ApplyLocking

\* The log entries of the runs with snapshots and backups: the creation of
\* a bucket and batches of two rows, batches failing at their second row
\* included.
CopyEntries ==
    {newCommand(createBucket, databaseSub(b, <<>>)) : b \in SBuckets}
        \cup {newCommand(batch, databaseSub(Nil, rows)) :
                  rows \in {t \in SBatches : Len(t) = 2} \cup FailingBatches}

\* Raft commits one of these entries and hands it to the FSM of every node.
DeliverWrites ==
    \E data \in CopyEntries :
        /\ \A m \in Nodes : Len(queue[m]) < MaxQueue
        /\ queue' = [m \in Nodes |-> Append(queue[m], data)]
        /\ UNCHANGED <<cacheVars, tree, metaMu, locks, wait, snap, peers, raftState, txn, db, cache, session,
                       meta, files, call, touched, acked, view>>

\* As many backups as snapshots.
BackupOnce(n) == Backup(n) /\ call.count < MaxSnapshots

\* Snapshots and backups against the FSM.
NextCopy ==
    \/ \E n \in Nodes :
        \/ BecomeLeader(n)
        \/ BackupOnce(n)
        \/ FsmSnapshot(n)
        \/ FsmApplyBegin(n)
        \/ FsmApplyCommit(n)
    \/ DeliverWrites

\* The database write methods with prefix scans as the only reads.
NextPrefix ==
    \/ \E n \in Nodes :
        \/ BecomeLeader(n)
        \/ StepDown(n)
        \/ Update(n)
        \/ Batch(n)
        \/ CreateBucket(n)
        \/ RemoveKey(n)
        \/ RemoveBucket(n)
        \/ FsmApplyBegin(n)
        \/ FsmApplyCommit(n)
        \/ ViewPrefix(n)
    \/ RaftApply
    \/ RaftApplyFails

Next ==
    \/ \E n \in Nodes :
        \/ BecomeLeader(n)
        \/ StepDown(n)
        \/ Update(n)
        \/ Batch(n)
        \/ CreateBucket(n)
        \/ CreateBucketIfNotExist(n)
        \/ RemoveKey(n)
        \/ RemoveBucket(n)
        \/ FsmApplyBegin(n)
        \/ FsmApplyCommit(n)
        \/ ViewGet(n)
    \/ RaftApply
    \/ RaftApplyFails
    \/ ViewRead
    \/ ViewAdd

\* Every write method, with raft and the FSM.
NextWrites ==
    \/ \E n \in Nodes :
        \/ BecomeCandidate(n)
        \/ LoseElection(n)
        \/ BecomeLeader(n)
        \/ StepDown(n)
        \/ Update(n)
        \/ Batch(n)
        \/ CreateBucket(n)
        \/ CreateBucketIfNotExist(n)
        \/ RemoveKey(n)
        \/ RemoveBucket(n)
        \/ SetSession(n)
        \/ DelSession(n)
        \/ Restore(n)
        \/ UpdateAPIPeers(n)
        \/ Join(n)
        \/ Remove(n)
        \/ Backup(n)
        \/ FsmApplyBegin(n)
        \/ FsmApplyCommit(n)
    \/ RaftApply
    \/ RaftApplyFails

\* ------------------------------------------------- the cache on its own

RECURSIVE SumSizes(_)
SumSizes(l) == IF l = <<>> THEN 0 ELSE EntrySize(Head(l)) + SumSizes(Tail(l))

\* How far the accounted size is from the bytes the cache holds.
Drift(cc) == cc.size - SumSizes(cc.evictList)

InDrift(cc) == Drift(cc) >= -MaxDrift /\ Drift(cc) <= MaxDrift

Op(name, b, k, v, r) ==
    [name |-> name, b |-> b, k |-> k, v |-> v,
     ok |-> r.ok, e |-> r.e, calls |-> r.calls]

InitCache ==
    /\ \E m \in {0, SmallBudget, LargeBudget}, cb \in BOOLEAN : lru = NewCache(m, cb)
    /\ op = Op("NewCache", Nil, Nil, Nil, Result(lru, FALSE, NoEntry, EmptyBag))
    /\ lastAdd = 0
    /\ InitStore
    /\ files = [n \in Nodes |-> EmptyMap]

\* A method call: the cache becomes r.c and op records the call.
Returns(name, b, k, v, r) ==
    /\ UNCHANGED storeVars
    /\ InDrift(r.c)
    /\ lru' = r.c
    /\ op' = Op(name, b, k, v, r)

LruAdd ==
    \E p \in Pairs, v \in Values :
        /\ Returns("Add", p[1], p[2], v, CacheAdd(lru, p[1], p[2], v))
        /\ lastAdd' = Len(p[1]) + Len(p[2]) + Len(v)

LruGet ==
    \E p \in Pairs :
        Returns("Get", p[1], p[2], Nil, CacheGet(lru, p[1], p[2])) /\ UNCHANGED lastAdd

LruContains ==
    \E p \in Pairs :
        /\ Returns("Contains", p[1], p[2], Nil,
                   Result(lru, CacheContains(lru, p[1], p[2]), NoEntry, EmptyBag))
        /\ UNCHANGED lastAdd

LruPeek ==
    \E p \in Pairs :
        Returns("Peek", p[1], p[2], Nil, CachePeek(lru, p[1], p[2])) /\ UNCHANGED lastAdd

LruRemoveBucket ==
    \E b \in Buckets :
        Returns("RemoveBucket", b, Nil, Nil, CacheRemoveBucket(lru, b))
        /\ UNCHANGED lastAdd

LruRemove ==
    \E p \in Pairs :
        Returns("Remove", p[1], p[2], Nil, CacheRemove(lru, p[1], p[2])) /\ UNCHANGED lastAdd

LruRemoveOldest ==
    Returns("RemoveOldest", Nil, Nil, Nil, CacheRemoveOldest(lru))
    /\ UNCHANGED lastAdd

LruGetOldest ==
    Returns("GetOldest", Nil, Nil, Nil, CacheGetOldest(lru)) /\ UNCHANGED lastAdd

LruPurge ==
    Returns("Purge", Nil, Nil, Nil, CachePurge(lru)) /\ UNCHANGED lastAdd

\* Keys leaves the cache as it is; op records the slice it returned, or that
\* it panicked.
LruKeys ==
    /\ lru' = lru
    /\ op' = [name |-> "Keys", b |-> Nil, k |-> Nil, v |-> Nil, ok |-> FALSE,
              e |-> NoEntry, calls |-> EmptyBag,
              keys |-> CacheKeys(lru).keys, panicked |-> CacheKeys(lru).panicked]
    /\ UNCHANGED <<lastAdd, storeVars>>

NextCache ==
    \/ LruKeys
    \/ LruAdd
    \/ LruGet
    \/ LruContains
    \/ LruPeek
    \/ LruRemoveBucket
    \/ LruRemove
    \/ LruRemoveOldest
    \/ LruGetOldest
    \/ LruPurge

SpecCache == InitCache /\ [][NextCache]_vars

\* The store runs: the stand-alone cache is left as constructed.
Init ==
    /\ InitStore
    /\ files = [n \in Nodes |-> EmptyMap]
    /\ lru = NewCache(0, FALSE)
    /\ op = Op("NewCache", Nil, Nil, Nil, Result(lru, FALSE, NoEntry, EmptyBag))
    /\ lastAdd = 0

Spec == Init /\ [][Next]_vars

SpecView == Init /\ [][NextView]_vars

SpecApply == Init /\ [][NextApply]_vars
SpecPrefix == Init /\ [][NextPrefix]_vars

\* The runs of Backup and Restore start from a store every replica has
\* filled: bucket a holds k = v.
InitBackup ==
    /\ raftState = [n \in Nodes |-> "Follower"]
    /\ peers = Nodes
    /\ queue = [n \in Nodes |-> <<>>]
    /\ txn = [n \in Nodes |-> NoTxn]
    /\ db = [n \in Nodes |-> BucketPut(MapPut(EmptyMap, "a", EmptyMap), "a", "k", "v")]
    /\ cache = [n \in Nodes |-> NewCache(cacheMaxMemorySize, FALSE)]
    /\ session = [n \in Nodes |-> EmptyMap]
    /\ meta = [n \in Nodes |-> EmptyMap]
    /\ view = NoView
    /\ call = NoCall
    /\ acked = [n \in Nodes |-> [p \in SPairs |-> Nil]]
    /\ touched = [n \in Nodes |-> {}]
    /\ snap = NoSnapshot
    /\ wait = NoWait
    /\ locks = NoLocks
    /\ metaMu = [n \in Nodes |-> NoMetaLock]
    /\ tree = NoTree
    /\ files = [n \in Nodes |-> EmptyMap]
    /\ lru = NewCache(0, FALSE)
    /\ op = Op("NewCache", Nil, Nil, Nil, Result(lru, FALSE, NoEntry, EmptyBag))
    /\ lastAdd = 0

SpecBackup == InitBackup /\ [][NextBackup]_vars
SpecSnapshot == Init /\ [][NextSnapshot]_vars
SpecSession == Init /\ [][NextSession]_vars
SpecWait == Init /\ [][NextWait]_vars
SpecScan == Init /\ [][NextScan]_vars
SpecCopy == Init /\ [][NextCopy]_vars
SpecLocks == Init /\ [][NextLocks]_vars
SpecPeers == Init /\ [][NextPeers]_vars
SpecInstall == InitBackup /\ [][NextInstall]_vars


\* A backup taken of a database that held one key.
BackupImage == BucketPut(MapPut(EmptyMap, "a", EmptyMap), "a", "k", "w")

\* The runs of every write method: the backup file is on the disk of n1.
InitWrites ==
    /\ InitStore
    /\ files = [n \in Nodes |-> IF n = "n1" THEN MapPut(EmptyMap, "bak", BackupImage)
                                ELSE EmptyMap]
    /\ lru = NewCache(0, FALSE)
    /\ op = Op("NewCache", Nil, Nil, Nil, Result(lru, FALSE, NoEntry, EmptyBag))
    /\ lastAdd = 0

SpecWrites == InitWrites /\ [][NextWrites]_vars
SpecRestart == InitWrites /\ [][NextRestart]_vars

\* ------------------------------------------------------- cache properties

\* The entries resident in a cache.
Resident(cc) == SeqToSet(cc.evictList)

ResidentAt(cc, b, k) == \E e \in Resident(cc) : e.bucket = b /\ e.key = k

\* C5: with MaxBytes > 0 the accounted size is at most MaxBytes whenever a
\* mutating method has returned.
C5_SizeWithinMaxBytes ==
    lru.maxSize > 0 => ~U64Gt(lru.size, lru.maxSize)

\* C6: with MaxBytes > 0 the accounted size is at most MaxBytes plus the size
\* of the entry given to the most recent Add.
C6_SizeWithinMaxBytesPlusLastAdd ==
    lru.maxSize > 0 => ~U64Gt(lru.size, lru.maxSize + lastAdd)

\* What a step's method was given to insert: the entry of an Add whose
\* (bucket, key) was not resident.
Inserted ==
    IF op'.name = "Add" /\ ~ResidentAt(lru, op'.b, op'.k)
    THEN {[bucket |-> op'.b, key |-> op'.k, value |-> op'.v]}
    ELSE {}

\* The entries that leave the cache in a step.
Left ==
    {e \in Resident(lru) \cup Inserted : ~ResidentAt(lru', e.bucket, e.key)}

\* C7: with a callback configured, every method calls it exactly once for
\* each entry that leaves the cache, with that entry's (bucket, key, value),
\* and for no entry that stays; RemoveBucket(b) calls it once per entry
\* resident under b.
C7_CallbackOncePerEvicted ==
    [][lru.onEvict =>
          /\ op'.calls = SetToBag(Left)
          /\ op'.name = "RemoveBucket" =>
                op'.calls = SetToBag({e \in Resident(lru) : e.bucket = op'.b})]_vars

C7_Witness ==
    /\ op.name = "RemoveBucket"
    /\ BagCardinality(op.calls) = 2
    /\ CacheLen(lru) = 1

\* C8: Add on a resident (b, k) replaces the value, makes the entry most
\* recent, evicts nothing and returns false.  Add on an absent (b, k)
\* inserts the entry as most recent and adds its size; it evicts exactly the
\* least recently used entry and returns true iff MaxBytes > 0 and the size
\* then exceeds MaxBytes.  With MaxBytes = 0 it never evicts.
C8_AddContract ==
    [][op'.name = "Add" =>
          LET new == [bucket |-> op'.b, key |-> op'.k, value |-> op'.v]
              grown == lru.size + EntrySize(new)
              over == lru.maxSize > 0 /\ U64Gt(grown, lru.maxSize)
              pushed == <<new>> \o lru.evictList
          IN  /\ ResidentAt(lru, op'.b, op'.k) =>
                    /\ lru'.evictList = <<new>> \o ListRemove(lru.evictList, op'.b, op'.k)
                    /\ op'.ok = FALSE
              /\ ~ResidentAt(lru, op'.b, op'.k) =>
                    /\ op'.ok = over
                    /\ over => /\ lru'.evictList = SubSeq(pushed, 1, Len(pushed) - 1)
                               /\ lru'.size = grown - EntrySize(pushed[Len(pushed)])
                    /\ ~over => lru'.evictList = pushed /\ lru'.size = grown
              /\ lru.maxSize = 0 =>
                    /\ op'.ok = FALSE
                    /\ Len(lru'.evictList) >= Len(lru.evictList)]_vars

C8_Witness ==
    /\ op.name = "Add"
    /\ op.ok
    /\ CacheLen(lru) = 2
    /\ lru.evictList[1].bucket = op.b /\ lru.evictList[1].key = op.k

\* C9: Add(b, k, v) followed at once by Get(b, k) returns (v, true).
C9_AddThenGet ==
    op.name = "Add" =>
        LET g == CacheGet(lru, op.b, op.k)
        IN  g.ok /\ g.e.value = op.v

\* C10: after Purge, count, size and Len are 0 and Contains, Get and Peek miss
\* for every (bucket, key).
C10_PurgeEmpties ==
    op.name = "Purge" =>
        /\ lru.count = 0
        /\ lru.size = 0
        /\ CacheLen(lru) = 0
        /\ \A p \in Pairs :
              /\ ~CacheContains(lru, p[1], p[2])
              /\ ~CacheGet(lru, p[1], p[2]).ok
              /\ ~CachePeek(lru, p[1], p[2]).ok

\* Purge has just emptied a cache that held entries under both buckets.
C10_Witness ==
    /\ op.name = "Purge"
    /\ BagCardinality(op.calls) >= 2
    /\ \E e \in BagToSet(op.calls) : e.bucket = "a"
    /\ \E e \in BagToSet(op.calls) : e.bucket = "b"

\* The composite identifiers of the entries, least recently used first.
KeysOldestFirst(c) ==
    [j \in 1..Len(c.evictList) |->
        c.evictList[Len(c.evictList) + 1 - j].bucket \o "-"
            \o c.evictList[Len(c.evictList) + 1 - j].key]

\* C11: Keys() returns normally, with Len() composite identifiers
\* (bucket-key) ordered from least to most recently used.
C11_KeysTotal ==
    op.name = "Keys"
        => /\ ~op.panicked
           /\ Len(op.keys) = CacheLen(lru)
           /\ op.keys = KeysOldestFirst(lru)

\* -------------------------------------------------------- store properties

\* The (bucket, key, value) triples of a database.
Triples(d) == UNION {{<<b, k, d[b][k]>> : k \in DOMAIN d[b]} : b \in DOMAIN d}

\* Node n has applied every command committed so far but the last i.
AppliedAllBut(n, i) == Len(queue[n]) = i /\ ~txn[n].open

\* C1: two replicas that started from the same store and have applied the
\* same committed commands (Update, Batch, CreateBucket,
\* CreateBucketIfNotExist, RemoveBucket, RemoveKey) in log order hold the
\* same set of (bucket, key, value) triples, failed commands included.
C1_ReplicasAgree ==
    \A n1, n2 \in Nodes : \A i \in 0..MaxQueue + 1 :
        AppliedAllBut(n1, i) /\ AppliedAllBut(n2, i)
            => Triples(db[n1]) = Triples(db[n2])

\* Both replicas have applied everything, the last command failed in the
\* FSM, the stores hold a key, and a View has left the caches different.
C1_Witness ==
    /\ \A n \in Nodes : AppliedAllBut(n, 0)
    /\ call.pc = "done" /\ call.fsm \notin {Nil, "none"}
    /\ \A n \in Nodes : Triples(db[n]) # {}
    /\ \E n1, n2 \in Nodes : CacheLen(cache[n1]) # CacheLen(cache[n2])

\* The writing client calls a write method in this step.
CallStarts == call.pc \in {"idle", "done"} /\ call'.count = call.count + 1

\* C2: a write method called on a node that is not the leader returns
\* ErrNotLeader without proposing a command, and leaves the store, the cache
\* and the session table (and the rest of the node) as they were.
C2_NotLeader ==
    [][(CallStarts /\ raftState[call'.n] # "Leader")
          => /\ call'.pc = "done"
             /\ call'.ret = ErrNotLeader
             /\ UNCHANGED <<raftState, peers, queue, txn, db, cache, session,
                            meta, files>>]_vars

\* A call has just returned ErrNotLeader on a node that is not the leader
\* and whose store and session table are not empty.
C2_Witness ==
    /\ call.pc = "done"
    /\ call.ret = ErrNotLeader
    /\ call.count = MaxCalls
    /\ raftState[call.n] # "Leader"
    /\ \A n \in Nodes : AppliedAllBut(n, 0)
    /\ db[call.n] # EmptyMap
    /\ session[call.n] # EmptyMap

\* What View(b, k) returns from the committed database of node n.
Stored(n, b, k) ==
    IF ~HasBucket(db[n], b) THEN [value |-> Nil, err |-> bucketNotFound]
    ELSE [value |-> BucketGet(db[n], b, k), err |-> Nil]

\* C3: a View(b, k) that starts on a replica after a mutating command
\* touching (b, k) was applied there, and during and after which no apply
\* commits, returns what the store holds for (b, k): the new value, nil for a
\* removed key, bucketNotFound for a removed bucket; never a value cached
\* before the mutation.
C3_CacheCoherence ==
    (/\ view.pc = "done"
     /\ view.clean
     /\ <<view.b, view.k>> \in touched[view.n])
        => /\ view.value = Stored(view.n, view.b, view.k).value
           /\ view.err = Stored(view.n, view.b, view.k).err

\* Update, like every write method, returns nil only when the FSM of the
\* node it was called on has applied its command without error.
NilOnlyAfterApplied == (call.pc = "done" /\ call.ret = Nil) => call.fsm = Nil

\* C4: a write method on the leader returns nil only after its command was
\* committed and applied by the leader's FSM without error, and a View(b, k)
\* issued on the leader after Update(b, k, v) returned nil there, with no
\* later write to (b, k), returns v.
C4_LeaderReadsItsWrites ==
    /\ NilOnlyAfterApplied
    /\ (view.pc = "done" /\ view.ack # Nil)
          => (view.value = view.ack /\ view.err = Nil)

\* C12: View(b, k) returns the cached value with a nil error, without
\* reading the store, when (b, k) is cached; otherwise it reads the store and
\* returns bucketNotFound for a missing bucket, (nil, nil) for an absent key
\* and the stored value otherwise; the cache gains an entry for (b, k)
\* exactly when the store returned a non-nil value, and the entry holds the
\* returned value.
C12_ViewContract ==
    [][LET n == view'.n
           b == view'.b
           k == view'.k
       IN  /\ (view'.count = view.count + 1 /\ view'.pc # "scanned")
                 => IF CacheContains(cache[n], b, k)
                    THEN /\ view'.pc = "done"
                         /\ view'.value = CachePeek(cache[n], b, k).e.value
                         /\ view'.err = Nil
                    ELSE view'.pc = "read"
           /\ (view.pc = "read" /\ view'.pc # "read")
                 => /\ view'.value = Stored(n, b, k).value
                    /\ view'.err = Stored(n, b, k).err
                    /\ view'.pc = IF view'.value = Nil THEN "done" ELSE "add"
                    /\ cache' = cache
           /\ (view.pc = "add" /\ view'.pc = "done")
                 => /\ view'.value = view.value /\ view'.err = Nil
                    /\ CachePeek(cache'[n], b, k).ok
                    /\ CachePeek(cache'[n], b, k).e.value = view'.value]_vars

\* RemoveBucket(b) has been applied on node n with success and b has not
\* been created since: a pair of b was written or removed there, and b is
\* not in the database.
BucketRemoved(n, b) ==
    /\ ~txn[n].open
    /\ ~HasBucket(db[n], b)
    /\ \E p \in touched[n] : p[1] = b

\* An applyRemoveBucket that fails leaves the cache as it was.
FailedRemoveBucketKeepsCache ==
    [][\A n \in Nodes :
          (/\ ~txn[n].open /\ txn'[n].open
           /\ UnmarshalTyp(Head(queue[n])) = removeBucket
           /\ txn'[n].err # Nil)
              => cache'[n] = cache[n]]_vars

\* C13: once RemoveBucket(b) has been applied with success on a replica, and
\* until b is created again, the replica's cache holds no entry under b and
\* a View(b, k) there returns bucketNotFound.
C13_RemovedBucketLeavesCache ==
    \A n \in Nodes : \A b \in SBuckets :
        BucketRemoved(n, b)
            => /\ \A k \in SKeys : ~CacheContains(cache[n], b, k)
               /\ (view.pc = "done" /\ view.n = n /\ view.b = b /\ view.clean)
                     => (view.value = Nil /\ view.err = bucketNotFound)

\* An Update or RemoveKey command that does not carry exactly one row, or a
\* command whose Typ is none of the defined kinds.
Malformed(data) ==
    \/ UnmarshalTyp(data) \notin update..restore
    \/ /\ UnmarshalTyp(data) \in {update, removeKey}
       /\ Len(UnmarshalDatabaseSub(data.sub).Batch) # 1

\* C14: fsm.Apply answers an Update or RemoveKey command without exactly one
\* row, and a command of unknown Typ, with a non-nil error and leaves the
\* store, the cache and the session table as they were.
C14_MalformedRejected ==
    [][\A n \in Nodes :
          (/\ queue[n] # <<>>
           /\ Malformed(Head(queue[n]))
           /\ txn'[n] # txn[n])
              => /\ db'[n] = db[n]
                 /\ cache'[n] = cache[n]
                 /\ session'[n] = session[n]
                 /\ txn'[n].open => (txn'[n].err # Nil /\ txn'[n].db = db[n])]_vars

\* The FSM of a node whose store, cache and session table hold something
\* has just answered a malformed command.
C14_Witness ==
    \E n \in Nodes :
        /\ txn[n].open
        /\ Malformed(Head(queue[n]))
        /\ txn[n].err # Nil
        /\ Triples(db[n]) # {}
        /\ CacheLen(cache[n]) > 0
        /\ session[n] # EmptyMap

\* The value of (b, k) in database d, Nil when the bucket or the key is
\* missing.
Lookup(d, b, k) == IF HasBucket(d, b) THEN BucketGet(d, b, k) ELSE Nil

\* The value the last row of rows for (b, k) carries, old without such a row.
LastValue(rows, b, k, old) ==
    LET idx == {i \in 1..Len(rows) : rows[i].Bucket = b /\ rows[i].Key = k}
    IN  IF idx = {} THEN old
        ELSE rows[CHOOSE i \in idx : \A j \in idx : j <= i].Value

\* Database new is database old with every row of rows written.
Written(old, new, rows) ==
    /\ DOMAIN new = DOMAIN old
    /\ \A b \in SBuckets \cup {MissingBucket} : \A k \in SKeys \cup {""} :
          Lookup(new, b, k) = LastValue(rows, b, k, Lookup(old, b, k))

\* C15: a Batch command is all or nothing on the store: when applyBatch
\* returns nil every row has been written, when it returns an error the
\* store holds what it held before, also when rows before the failing one
\* target existing buckets.
C15_BatchAllOrNothing ==
    [][\A n \in Nodes :
          (queue[n] # <<>> /\ UnmarshalTyp(Head(queue[n])) = batch)
              => LET rows == UnmarshalDatabaseSub(Head(queue[n]).sub).Batch
                 IN  /\ (~txn[n].open /\ txn'[n].open)
                           => /\ IF txn'[n].err = Nil
                                 THEN Written(db[n], txn'[n].db, rows)
                                 ELSE txn'[n].db = db[n]
                              /\ db'[n] = db[n]
                     /\ (txn[n].open /\ ~txn'[n].open)
                           => db'[n] = txn[n].db]_vars

\* A batch has failed at its second row on a node where the bucket of its
\* first row exists.
C15_Witness ==
    \E n \in Nodes :
        /\ txn[n].open
        /\ Head(queue[n]) \in {newCommand(batch, databaseSub(Nil, rows)) : rows \in FailingBatches}
        /\ txn[n].err # Nil
        /\ \A b \in SBuckets : HasBucket(db[n], b)

\* A Batch command without rows.
EmptyBatch(data) ==
    UnmarshalTyp(data) = batch /\ Len(UnmarshalDatabaseSub(data.sub).Batch) = 0

\* C16: Batch called on the leader with no rows returns an error and
\* submits nothing: a call on the leader either hands raft a command that is
\* not an empty batch, or returns at once with an error, leaving the log,
\* the stores and the caches of all replicas as they were.
C16_EmptyBatchRejected ==
    [][(CallStarts /\ raftState[call'.n] = "Leader")
          => IF call'.pc = "done"
             THEN /\ call'.ret # Nil
                  /\ UNCHANGED <<queue, txn, db, cache, session>>
             ELSE call'.pc = "propose" /\ ~EmptyBatch(call'.data)]_vars

\* Batch with no rows has just returned its error on the leader, whose store
\* holds a key.
C16_Witness ==
    /\ call.pc = "done"
    /\ call.ret = "no data in batch"
    /\ raftState[call.n] = "Leader"
    /\ Triples(db[call.n]) # {}

\* The FSM of node n starts, in this step, to apply a command of type t.
Applies(n, t) ==
    /\ queue[n] # <<>>
    /\ UnmarshalTyp(Head(queue[n])) = t
    /\ ~txn[n].open /\ txn'[n].open

\* C17: CreateBucket(name) on an existing bucket returns an error and leaves
\* the bucket's keys and values as they were.  CreateBucketIfNotExist(name)
\* returns nil whether or not the bucket exists, leaves an existing bucket's
\* keys and values as they were, and applied a second time changes nothing.
C17_CreateBucket ==
    [][\A n \in Nodes :
          LET name == UnmarshalDatabaseSub(Head(queue[n]).sub).Name
              once == [StateOf(n) EXCEPT !.db = txn'[n].db, !.cache = cache'[n]]
              twice == fsmApply(once, Head(queue[n]))
          IN  /\ (Applies(n, createBucket) /\ HasBucket(db[n], name))
                    => (txn'[n].err # Nil /\ txn'[n].db = db[n])
              /\ (Applies(n, createBucketIfNotExist) /\ name \in SBuckets)
                    => /\ txn'[n].err = Nil
                       /\ HasBucket(txn'[n].db, name)
                       /\ \A b \in DOMAIN db[n] : txn'[n].db[b] = db[n][b]
                       /\ twice.err = Nil /\ twice.db = txn'[n].db
              /\ (txn[n].open /\ ~txn'[n].open) => db'[n] = txn[n].db]_vars

\* CreateBucketIfNotExist has been applied to a bucket that holds a key.
C17_Witness ==
    \E n \in Nodes :
        /\ txn[n].open
        /\ UnmarshalTyp(Head(queue[n])) = createBucketIfNotExist
        /\ txn[n].err = Nil
        /\ Triples(db[n]) # {}
        /\ Triples(txn[n].db) = Triples(db[n])

\* The buckets the rows of an Update, RemoveKey or Batch command name.
RowBuckets(data) ==
    {UnmarshalDatabaseSub(data.sub).Batch[i].Bucket :
        i \in 1..Len(UnmarshalDatabaseSub(data.sub).Batch)}

\* C18: Update, RemoveKey and Batch against a bucket that does not exist
\* fail in the FSM with bucketNotFound and leave the store of the replica as
\* it was; the proposing caller gets the error of the leader's apply as the
\* method's result; ViewPrefix on a missing bucket returns bucketNotFound.
C18_BucketNotFound ==
    [][/\ \A n \in Nodes :
            /\ (/\ \E t \in {update, removeKey, batch} : Applies(n, t)
                /\ \E b \in RowBuckets(Head(queue[n])) : ~HasBucket(db[n], b))
                  => /\ txn'[n].err = bucketNotFound
                     /\ txn'[n].db = db[n]
                     /\ db'[n] = db[n]
            /\ (txn[n].open /\ ~txn'[n].open)
                  => /\ db'[n] = txn[n].db
                     /\ (call.pc = "wait" /\ call.n = n)
                           => (call'.pc = "done" /\ call'.ret = txn[n].err)
       /\ (view'.pc = "scanned" /\ view'.count = view.count + 1
           /\ ~HasBucket(db[view'.n], view'.b))
             => (view'.err = bucketNotFound /\ view'.value = EmptyMap)]_vars

\* The write on the leader has returned bucketNotFound, every replica has
\* applied the command, and a ViewPrefix on the missing bucket has returned.
C18_Witness ==
    /\ call.pc = "done" /\ call.ret = bucketNotFound
    /\ \A n \in Nodes : AppliedAllBut(n, 0)
    /\ view.pc = "scanned" /\ view.err = bucketNotFound

\* What View(b, k) returns from cache c over database d.
ViewReturns(c, d, b, k) ==
    IF CacheContains(c, b, k) THEN CachePeek(c, b, k).e.value ELSE Lookup(d, b, k)

\* The file a restore command at the head of the queue of n names.
RestoreFile(n) == UnmarshalDatabaseSub(Head(queue[n]).sub).Name

\* The apply of a restore command whose file is on the disk of n ends.
Restored(n) ==
    /\ txn[n].open /\ ~txn'[n].open
    /\ UnmarshalTyp(Head(queue[n])) = restore
    /\ RestoreFile(n) \in DOMAIN files[n]

\* Backup returns the triples the leader's store holds, and the apply of a
\* restore command naming a file with that data leaves the store with
\* exactly the triples of the file, whatever the replica held.
RestoreInstallsBackup ==
    [][/\ (call'.pc = "done" /\ call'.data # NoData /\ call'.count = call.count + 1)
             => Triples(call'.data.file) = Triples(db[call'.n])
       /\ \A n \in Nodes :
            /\ (Applies(n, restore) /\ RestoreFile(n) \in DOMAIN files[n])
                  => /\ txn'[n].err = Nil
                     /\ Triples(txn'[n].db) = Triples(files[n][RestoreFile(n)])
                     /\ CacheLen(cache'[n]) = 0
            /\ Restored(n)
                  => Triples(db'[n]) = Triples(files[n][RestoreFile(n)])]_vars

\* C19: when the apply of a Restore command naming a file that holds the
\* data of a Backup ends on a replica, after any writes and cached reads,
\* the store of the replica holds exactly the triples of the backup, its
\* cache is empty and View(b, k) returns the backup's value for every (b, k).
C19_BackupRestore ==
    [][\A n \in Nodes :
          Restored(n)
             => /\ Triples(db'[n]) = Triples(files[n][RestoreFile(n)])
                /\ CacheLen(cache'[n]) = 0
                /\ \A p \in SPairs :
                      ViewReturns(cache'[n], db'[n], p[1], p[2])
                         = Lookup(files[n][RestoreFile(n)], p[1], p[2])]_vars

\* The bytes of the database file of node n.
dbFile(n) == boltImage(db[n])

\* C20: the fsmSnapshot holds the bytes of the database file copied at
\* snapshot time, whatever the store holds; and when fsm.Restore has read
\* what Persist wrote, the database file of the replica is byte for byte
\* that copy, whatever the replica held before.
C20_SnapshotRoundTrip ==
    [][/\ (snap'.pc = "taken" /\ snap.pc # "taken")
             => snap'.database = dbFile(snap'.from)
       /\ (snap.pc = "taken" /\ snap'.pc = "persisted")
             => snap'.database = snap.database
       /\ (snap.pc = "persisted" /\ snap'.pc = "restored")
             => /\ snap'.err = Nil
                /\ snap'.database = snap.database
                /\ boltImage(db'[snap'.to]) = snap.database]_vars

\* A snapshot of a store with a key has been restored on a replica whose
\* database file held other bytes.
C20_Witness ==
    /\ snap.pc = "restored"
    /\ snap.err = Nil
    /\ snap.old # snap.database
    /\ \E b \in SBuckets : HasBucket(db[snap.to], b) /\ DOMAIN db[snap.to][b] # {}
    /\ dbFile(snap.to) = snap.database

\* The apply of a session command on n begins: the session table changes in
\* this step.
AppliesSession(n, t, k, v) ==
    /\ Applies(n, t)
    /\ Head(queue[n]).sub = MarshalSub(t, sessionSub(k, v))

\* The session table of every replica follows the session commands applied
\* there, for the keys and values given; GetSession reads the table; and
\* replicas that have applied the same commands hold the same table.
SessionReads(keys, values) ==
    \A n \in Nodes :
        /\ \A k \in keys :
              /\ \A v \in values :
                    AppliesSession(n, setSession, k, v)
                       => /\ SessionGet(session'[n], k) = v
                          /\ \A j \in keys \ {k} :
                                SessionGet(session'[n], j) = SessionGet(session[n], j)
              /\ AppliesSession(n, delSession, k, Nil)
                    => /\ SessionGet(session'[n], k) = Nil
                       /\ \A j \in keys \ {k} :
                             SessionGet(session'[n], j) = SessionGet(session[n], j)
        /\ session'[n] # session[n]
              => Applies(n, setSession) \/ Applies(n, delSession)
        /\ (/\ view'.pc = "got" /\ view'.n = n
            /\ view.pc = "retry" \/ view'.count = view.count + 1)
              => view'.value = SessionGet(session[n], view'.k)
        /\ \A n2 \in Nodes : \A i \in 0..MaxQueue :
              (AppliedAllBut(n, i) /\ AppliedAllBut(n2, i)) => session[n] = session[n2]

\* With keys and values that are strings, GetSession follows the applied log.
StringSessionsFollowLog == [][SessionReads(SSessionKeys, SSessionValues)]_vars

\* C21: on every replica GetSession(k) returns the value of the last applied
\* SetSession(k, v) with no DelSession(k) applied after it, and nil
\* otherwise; replicas that have applied the same prefix of the log return
\* the same for every k.
C21_SessionFollowsLog == [][SessionReads(GoKeys, GoValues)]_vars

\* The session commands among the entries committed after the snapshot set
\* every session the table m holds.
SetAfterSnapshot(m) ==
    \A k \in DOMAIN m :
        \E i \in 1..Len(snap'.after) :
            /\ UnmarshalTyp(snap'.after[i]) = setSession
            /\ UnmarshalSessionSub(snap'.after[i].sub) = sessionSub(k, m[k])

\* C22: the snapshot holds the bytes of the database file and nothing of the
\* session table; fsm.Restore on a running replica and the apply of a
\* Restore command leave the session table as it was; a replica that
\* restarts and installs a snapshot has an empty session table, and from
\* then on holds only sessions set by commands committed after the snapshot.
C22_SessionsNotSnapshotted ==
    [][/\ (snap'.pc = "taken" /\ snap.pc # "taken")
             => snap'.database = boltImage(db[snap'.from])
       /\ (snap.pc = "persisted" /\ snap'.pc = "restored")
             => session'[snap'.to] = session[snap'.to]
       /\ \A n \in Nodes : Applies(n, restore) => session'[n] = session[n]
       /\ (snap.pc = "persisted" /\ snap'.pc = "restarted")
             => session'[snap'.to] = EmptyMap
       /\ snap'.pc = "restarted" => SetAfterSnapshot(session'[snap'.to])]_vars

\* A replica has restarted from a snapshot taken when a session was set, and
\* has applied every command: it lacks the session the other replica holds.
C22_Witness ==
    /\ snap.pc = "restarted"
    /\ \A n \in Nodes : AppliedAllBut(n, 0)
    /\ session[snap.to] = EmptyMap
    /\ \E n \in Nodes : session[n] # EmptyMap

\* WaitForLeader returns in this step.
WaitReturns == wait.pc # "done" /\ wait'.pc = "done"

\* A nil error comes with a leader address, and the errors come from the
\* timer that names them.
WaitForLeaderResults ==
    [][WaitReturns
          => /\ wait'.err = Nil => wait'.leader # ""
             /\ wait'.err = "wait for leader timeout" => wait.pc = "poll"
             /\ wait'.err = "wait for snapshot timeout" => wait.pc = "blocked"]_vars

\* C23: WaitForLeader returns a nil error only with a leader address, and
\* the snapshot timeout error only while fsm.Restore is running on the node
\* when that timer fires; once the restore that was in progress has closed
\* the ready channel the call returns the leader.
C23_WaitForLeader ==
    [][WaitReturns
          => /\ wait'.err = Nil => wait'.leader # ""
             /\ wait'.err = "wait for leader timeout" => wait.pc = "poll"
             /\ wait'.err = "wait for snapshot timeout"
                   => wait.n \in wait.restoring]_vars

\* ViewPrefix returns in this step from a bucket the node holds.
Scanned ==
    /\ view'.pc = "scanned" /\ view'.count = view.count + 1
    /\ HasBucket(db[view'.n], view'.b)

\* The entries of the scanned bucket whose key has the prefix and whose
\* value is in values.
Matching(values) ==
    LET bucket == db[view'.n][view'.b]
        ks == {k \in DOMAIN bucket : HasPrefix(k, view'.k) /\ bucket[k] \in values}
    IN  [k \in ks |-> bucket[k]]

\* ViewPrefix returns the entries with the prefix that have a value of one
\* byte or more.
ViewPrefixOfValues ==
    [][Scanned => (view'.err = Nil /\ view'.value = Matching(ScanValues \ {""}))]_vars

\* C24: ViewPrefix(b, prefix) on an existing bucket returns the mapping of
\* every key of b with the prefix to its stored value, entries with an empty
\* value included, and nothing else.
C24_ViewPrefixExact ==
    [][Scanned => (view'.err = Nil /\ view'.value = Matching(ScanValues))]_vars

\* The apply function of an Update, RemoveKey or Batch command has run on
\* node n in this step without error.
AppliesRows(n) ==
    /\ ~txn[n].open /\ txn'[n].open /\ txn'[n].err = Nil
    /\ UnmarshalTyp(Head(queue[n])) \in {update, removeKey, batch}

\* A View of (b, k) on node n adds the value it read to the cache in this
\* step.
ViewAdds(n, b, k) ==
    view.pc = "add" /\ view'.pc = "done" /\ view.n = n /\ view.b = b /\ view.k = k

\* C25: the apply of a successful Update, RemoveKey or Batch command leaves
\* the replica's cache with no entry for any (bucket, key) the command
\* touched, and an absent entry stays absent in every step up to and after
\* the return of fsm.Apply except the cache.Add of a View of that key.
C25_AppliedKeysLeaveCache ==
    [][\A n \in Nodes :
         /\ AppliesRows(n) =>
                \A p \in Touches(Head(queue[n])) : ~CacheContains(cache'[n], p[1], p[2])
         /\ \A p \in SPairs :
                (~CacheContains(cache[n], p[1], p[2]) /\ CacheContains(cache'[n], p[1], p[2]))
                    => ViewAdds(n, p[1], p[2])]_vars

\* fsm.Apply has returned on a replica from a command that touched the key a
\* View had read into the cache before, and the cache holds no entry for it.
C25_Witness ==
    \E n \in Nodes :
        /\ ~txn[n].open
        /\ view.pc = "done" /\ view.n = n /\ view.value # Nil /\ ~view.clean
        /\ <<view.b, view.k>> \in touched[n]
        /\ ~CacheContains(cache[n], view.b, view.k)

\* What a read transaction gets for (b, k) from the database d.
StoredIn(d, b, k) ==
    IF ~HasBucket(d, b) THEN [value |-> Nil, err |-> bucketNotFound]
    ELSE [value |-> BucketGet(d, b, k), err |-> Nil]

\* The apply function of an Update, RemoveKey, Batch or RemoveBucket command
\* has run on node n in this step without error and has removed the cache
\* entry of (b, k).
RemovesEntry(n, b, k) ==
    /\ ~txn[n].open /\ txn'[n].open /\ txn'[n].err = Nil
    /\ UnmarshalTyp(Head(queue[n])) \in {update, removeKey, batch, removeBucket}
    /\ <<b, k>> \in Touches(Head(queue[n]))
    /\ CacheContains(cache[n], b, k) /\ ~CacheContains(cache'[n], b, k)

\* C26: once applyUpdate, applyRemoveKey, applyBatch or applyRemoveBucket
\* has removed the cache entry of a key it touches, a reader of the store
\* gets what the command wrote for that key, never the value from before.
C26_RemovalAfterCommit ==
    [][\A n \in Nodes : \A p \in SPairs :
         RemovesEntry(n, p[1], p[2])
            => StoredIn(db'[n], p[1], p[2]) = StoredIn(txn'[n].db, p[1], p[2])]_vars

\* The (bucket, key) pairs of the recency list, most recently used first.
Recency(c) == [i \in 1..Len(c.evictList) |-> <<c.evictList[i].bucket, c.evictList[i].key>>]

\* The sequence of pairs s without the pair p, and without the last pair.
WithoutPair(s, p) ==
    LET Other(q) == q # p
    IN  SelectSeq(s, Other)

WithoutBucket(s, b) ==
    LET Other(q) == q[1] # b
    IN  SelectSeq(s, Other)

WithoutOldest(s) == IF s = <<>> THEN s ELSE SubSeq(s, 1, Len(s) - 1)

\* The order of last touch after the call o, given the order old before it:
\* an insertion, a replacement and a hit make the pair the newest, an
\* eviction removes the oldest, the reading methods keep the order.
Touched(old, o) ==
    LET p == <<o.b, o.k>>
        newest == <<p>> \o WithoutPair(old, p)
    IN  CASE o.name = "Add" -> IF o.ok THEN WithoutOldest(newest) ELSE newest
          [] o.name = "Get" -> IF o.ok THEN newest ELSE old
          [] o.name \in {"Contains", "Peek", "GetOldest", "Keys"} -> old
          [] o.name = "RemoveOldest" -> WithoutOldest(old)
          [] o.name = "Remove" -> WithoutPair(old, p)
          [] o.name = "RemoveBucket" -> WithoutBucket(old, o.b)
          [] OTHER -> <<>>

\* RemoveOldest and GetOldest report the oldest pair and its value.
ReportsOldest(c, o) ==
    o.name \in {"RemoveOldest", "GetOldest"} =>
        IF c.evictList = <<>> THEN ~o.ok
        ELSE o.ok /\ o.e = c.evictList[Len(c.evictList)]

\* C27: the cache is an LRU: Add (inserting or replacing) and a Get that
\* hits make the entry the most recently used, the entry a capacity eviction
\* or RemoveOldest removes and the entry GetOldest reports is the resident
\* entry touched longest ago, and Peek, Contains, GetOldest and Keys leave
\* the recency order as it is.
C27_LruOrder ==
    [][/\ Recency(lru') = Touched(Recency(lru), op')
       /\ ReportsOldest(lru, op')]_cacheVars

\* An Add has evicted the entry touched longest ago and two entries touched
\* after it, the inserted one among them, are resident.
C27_Witness ==
    /\ op.name = "Add" /\ op.ok
    /\ Len(lru.evictList) >= 2

\* The cache c is well formed: no two elements of the recency list hold the
\* same (bucket, key), every element is indexed under its (bucket, key),
\* every indexed key has its element in the list, and count, Len() and the
\* number of indexed keys agree.
WellFormed(c) ==
    LET l == c.evictList
    IN  /\ \A i, j \in 1..Len(l) :
               (l[i].bucket = l[j].bucket /\ l[i].key = l[j].key) => i = j
        /\ \A i \in 1..Len(l) : Indexed(c, l[i].bucket, l[i].key)
        /\ \A p \in IndexedPairs(c) :
               \E i \in 1..Len(l) : l[i].bucket = p[1] /\ l[i].key = p[2]
        /\ c.count = CacheLen(c)
        /\ c.count = Cardinality(IndexedPairs(c))

\* C28: after any sequence of cache operations the cache is well formed.
C28_CacheWellFormed == WellFormed(lru)

\* RemoveBucket has removed the entries of a bucket from a cache that still
\* holds an entry of another bucket.
C28_Witness ==
    /\ op.name = "RemoveBucket" /\ op.ok
    /\ lru.count >= 1
    /\ op.b \notin DOMAIN lru.items

\* fsm.Snapshot on node n, and Backup on node n, return their copy in this
\* step.
Snapshots(n) == snap.pc # "taken" /\ snap'.pc = "taken" /\ snap'.from = n

BacksUp(n) ==
    /\ call'.count = call.count + 1 /\ call'.n = n
    /\ call'.ret = Nil /\ call'.data.fields = {"file"}

\* The committed database of node n changes in this step by the whole
\* command at the head of its queue: every row of a batch has been written.
WholeCommand(n) ==
    /\ txn[n].open /\ txn[n].err = Nil
    /\ UnmarshalTyp(Head(queue[n])) = batch
          => Written(db[n], db'[n], UnmarshalDatabaseSub(Head(queue[n]).sub).Batch)

\* C29: the copy a snapshot or a backup captures is the committed database
\* of the replica at a moment when no command is being applied there, and
\* the committed database changes only by whole commands (all rows of a
\* Batch or none): the copy is the store after a prefix of the applied
\* commands.
C29_CopiesAfterPrefix ==
    [][\A n \in Nodes :
         /\ Snapshots(n) =>
               /\ ~txn[n].open
               /\ boltOpen(snap'.database).ok
               /\ boltOpen(snap'.database).db = db[n]
         /\ BacksUp(n) => (~txn[n].open /\ call'.data.file = db[n])
         /\ db'[n] # db[n] => WholeCommand(n)]_vars

\* A snapshot holding a key was taken on a replica, a backup has been
\* returned, and a batch is being applied on a replica.
C29_Witness ==
    /\ snap.pc = "taken"
    /\ Triples(boltOpen(snap.database).db) # {}
    /\ call.pc = "done" /\ call.ret = Nil /\ call.data.fields = {"file"}
    /\ \E m \in Nodes :
          /\ txn[m].open
          /\ UnmarshalTyp(Head(queue[m])) = batch
          /\ Len(UnmarshalDatabaseSub(Head(queue[m]).sub).Batch) = 2

\* The lock call thread t makes next, the locks it holds, and whether it
\* waits: it calls Lock on a lock another thread holds.
NextCall(t) ==
    IF locks.does[t] = <<>> THEN <<Nil, Nil>> ELSE locks.does[t][locks.at[t] + 1]

Holds(t) == {l \in SeqToSet(LockOrder) : locks.owner[l] = t}

WaitsFor(t, l) == NextCall(t) = Lock(l) /\ locks.owner[l] # Nil

Rank(l) == CHOOSE i \in 1..Len(LockOrder) : LockOrder[i] = l

\* No set of threads each waits for a lock a thread of the set holds.
NoWaitCycle ==
    \A S \in SUBSET Threads \ {{}} :
        \E t \in S : \A l \in SeqToSet(LockOrder) :
            WaitsFor(t, l) => locks.owner[l] \notin S

\* C30: a thread holding the cache lock never calls Lock on the store mutex
\* or the writer lock, a thread calls Lock only on locks that come after
\* every lock it holds in the order store mutex, writer lock, cache lock,
\* and no threads wait for one another in a cycle.
C30_DeadlockFree ==
    /\ \A t \in Threads :
          "cache" \in Holds(t) => NextCall(t) \notin {Lock("mu"), Lock("tx")}
    /\ \A t \in Threads : \A l \in SeqToSet(LockOrder) :
          NextCall(t) = Lock(l) => \A h \in Holds(t) : Rank(h) < Rank(l)
    /\ NoWaitCycle

\* An apply holding the mutex and the writer lock waits for the cache lock a
\* View holds, while ViewPrefix waits for the writer lock and Backup and
\* Snapshot wait for the mutex.
C30_Witness ==
    /\ Holds("Apply") = {"mu", "tx"} /\ WaitsFor("Apply", "cache")
    /\ "cache" \in Holds("View")
    /\ WaitsFor("ViewPrefix", "tx")
    /\ WaitsFor("Backup", "mu")
    /\ WaitsFor("Snapshot", "mu")

\* A thread changes the map s.meta.APIPeers of node n in this step, and the
\* thread holds s.metaMu exclusively: applySetPeer has it locked and no call
\* holds it shared.
MutatesMap(n) == meta'[n] # meta[n]

Exclusive(n) == metaMu[n].writer /\ metaMu[n].readers = {}

\* No call is inside its loop over the map of node n.
NoReader(n) == \A t \in Callers : metaMu[n].pc[t] # "range"

\* The merge of applySetPeer is made with the lock held exclusively and no
\* call reading the map.
SetPeerExclusive ==
    [][\A n \in Nodes :
         (MutatesMap(n) /\ metaMu[n].writer) => (Exclusive(n) /\ NoReader(n))]_vars

\* C31: every mutation of s.meta.APIPeers, the merge of applySetPeer and
\* the deletion of stale entries in APIPeers(), is made by a thread holding
\* s.metaMu exclusively, while no other thread reads or mutates the map.
C31_MapMutatedExclusively ==
    [][\A n \in Nodes :
         MutatesMap(n) => (Exclusive(n) /\ NoReader(n))]_vars

\* While the accounted size is not below the bytes the resident entries
\* hold, no method subtracts more than the accounted size.
NoUnderflowWithoutDrift ==
    [][(lru.size >= 0 /\ Drift(lru) >= 0) => lru'.size >= 0]_cacheVars

\* C32: the accounted size never underflows: no removal subtracts more than
\* the accounted size, so the uint64 counter (held as its signed residue)
\* never wraps around below zero.
C32_SizeNeverUnderflows == lru.size >= 0

\* fsm.Restore installs the snapshot on node n in this step.
Installs(n) ==
    snap.pc = "persisted" /\ snap'.pc = "restored" /\ snap'.to = n /\ snap'.err = Nil

\* Every entry of cache c holds the value database d has for its key.
CacheAgrees(c, d) ==
    \A e \in SeqToSet(c.evictList) : StoredIn(d, e.bucket, e.key).value = e.value

\* A View on the replica the snapshot was installed on returns in this step
\* while the database of the replica is that of the snapshot.
ViewsInstalled ==
    /\ snap.pc = "restored" /\ snap.err = Nil
    /\ db[snap.to] = boltOpen(snap.database).db
    /\ view'.count = view.count + 1 /\ view'.pc = "done" /\ view'.n = snap.to

\* fsm.Restore leaves the cache of the replica as it was.
RestoreKeepsCache ==
    [][\A n \in Nodes : Installs(n) => cache'[n] = cache[n]]_vars

\* C33: when fsm.Restore has installed a snapshot on a replica the cache of
\* the replica holds no entry that disagrees with the restored database, and
\* a View there returns what the snapshot holds for its key.
C33_RestoredCacheAgrees ==
    [][/\ \A n \in Nodes : Installs(n) => CacheAgrees(cache'[n], db'[n])
       /\ ViewsInstalled =>
             view'.value = StoredIn(db[snap.to], view'.b, view'.k).value]_vars


(***************************************************************************)
(* fsm.Restore and a snapshot stream that cannot be decoded                *)
(***************************************************************************)

\* The stream rc that fsm.Restore decodes is what the transport delivered of
\* the leader's sink.  A transfer that ends early leaves text without its
\* closing quote, which json.Decoder rejects.
StreamCut ==
    /\ snap.pc = "persisted"
    /\ jsonDecode(snap.sink).ok
    /\ snap' = [snap EXCEPT !.sink = SubSeq(@, 1, Len(@) - 1)]
    /\ UNCHANGED <<cacheVars, tree, metaMu, locks, wait, peers, raftState, queue, txn, db, cache,
                   session, meta, files, view, call, acked, touched>>

NextFailedRestore ==
    \/ \E n \in Nodes :
        \/ BecomeLeader(n)
        \/ UpdateOnce(n)
        \/ FsmApplyBegin(n)
        \/ FsmApplyCommit(n)
        \/ FsmSnapshot(n)
        \/ FsmRestore(n)
        \/ ViewGet(n)
    \/ Persist
    \/ StreamCut
    \/ RaftApply
    \/ ViewRead
    \/ ViewAdd

SpecFailedRestore == InitBackup /\ [][NextFailedRestore]_vars

\* fsm.Restore runs on replica n and returns.
Restores(n) == snap.pc = "persisted" /\ snap'.pc = "restored" /\ snap'.to = n

\* A Restore that returns nil has installed the snapshot: the database is
\* open and holds the content the snapshot was taken of.  A Restore that
\* returns an error has not changed the content of the database file.
RestoreInstallsOrKeeps ==
    [][\A n \in Nodes : Restores(n) =>
          /\ snap'.err = Nil =>
                n \notin snap'.closed /\ boltImage(db'[n]) = snap.database
          /\ snap'.err # Nil => db'[n] = db[n]]_vars

\* C34: fsm.Restore is all-or-nothing.  Either it installs the snapshot and
\* leaves an open database holding the snapshot's content, or it returns an
\* error and leaves the previous database open with its content unchanged,
\* so that a later View or apply on the replica is not refused with
\* "database not open".
C34_RestoreAllOrNothing ==
    [][/\ \A n \in Nodes : Restores(n) =>
            \/ /\ snap'.err = Nil
               /\ n \notin snap'.closed
               /\ boltImage(db'[n]) = snap.database
            \/ /\ snap'.err # Nil
               /\ n \notin snap'.closed
               /\ db'[n] = db[n]
       /\ view'.err # ErrDatabaseNotOpen
       /\ \A n \in Nodes : txn'[n].err # ErrDatabaseNotOpen]_vars


(***************************************************************************)
(* The dashboards of the tree layer                                        *)
(***************************************************************************)

\* The dashboards of one ns are stored as one JSON list under the key
\* "dashboard" of the node; tree.dashboards is the list GetDashboard decodes
\* (no bytes stored decode to the nil list).  Indexes are Go's, from 0; the
\* methods are called with indexes that are not negative.  A call whose
\* store write fails is not followed.
MaxDashboards == 1
MaxPanels == 2
MaxTargets == 1
MaxIndex == 2

ErrInvalidParam == "invalid param"

Indexes == 0 .. MaxIndex
NewOrders == UNION {[1 .. l -> 0 .. MaxPanels - 1] : l \in 0 .. MaxPanels}
PanelUpdates == {<<"q", "">>, <<"", "bar">>}
Targets == {"x", "y"}

treeOthers ==
    <<cacheVars, raftState, peers, queue, txn, db, cache, session, meta, files,
      view, call, acked, touched, snap, wait, locks, metaMu>>

\* copy(list[index:], list[index+1:]) and list[:len(list)-1]
removeAt(list, index) ==
    [i \in 1 .. Len(list) - 1 |-> IF i <= index THEN list[i] ELSE list[i + 1]]

\* tmp.Sort() of sort.IntSlice
SortInts(order) ==
    CHOOSE tmp \in [1 .. Len(order) -> {order[i] : i \in 1 .. Len(order)}] :
        /\ \A i \in 1 .. Len(order) - 1 : tmp[i] <= tmp[i + 1]
        /\ \A x \in {order[i] : i \in 1 .. Len(order)} :
              Cardinality({i \in 1 .. Len(order) : tmp[i] = x})
                  = Cardinality({i \in 1 .. Len(order) : order[i] = x})

invalidOrder(order) ==
    LET tmp == SortInts(order)
    IN  \E i \in 1 .. Len(order) : tmp[i] # i - 1

\* The method returns err without calling SetDashboard.
TreeFails(name, dIndex, panelIndex, targetIndex, err) ==
    /\ tree' = [tree EXCEPT !.ret = [op |-> name, dIndex |-> dIndex,
                                     panelIndex |-> panelIndex,
                                     targetIndex |-> targetIndex,
                                     err |-> err, wrote |-> FALSE]]
    /\ UNCHANGED treeOthers

\* return t.SetDashboard(ns, dashboards): the list is marshalled and written.
SetDashboard(name, dIndex, panelIndex, targetIndex, dashboards) ==
    /\ tree' = [dashboards |-> dashboards,
                ret |-> [op |-> name, dIndex |-> dIndex, panelIndex |-> panelIndex,
                         targetIndex |-> targetIndex, err |-> Nil, wrote |-> TRUE]]
    /\ UNCHANGED treeOthers

AddDashboard ==
    /\ Len(tree.dashboards) < MaxDashboards
    /\ SetDashboard("AddDashboard", 0, 0, 0,
                    Append(tree.dashboards, [Title |-> "t", Panels |-> <<>>]))

UpdateDashboard(dIndex) ==
    LET dashboards == tree.dashboards
    IN  IF dIndex >= Len(dashboards)
        THEN TreeFails("UpdateDashboard", dIndex, 0, 0, ErrInvalidParam)
        ELSE SetDashboard("UpdateDashboard", dIndex, 0, 0,
                          [dashboards EXCEPT ![dIndex + 1].Title = "u"])

\* With err nil and the index out of range the method logs and returns err.
RemoveDashboard(dIndex) ==
    LET dashboards == tree.dashboards
    IN  IF dIndex >= Len(dashboards)
        THEN TreeFails("RemoveDashboard", dIndex, 0, 0, Nil)
        ELSE SetDashboard("RemoveDashboard", dIndex, 0, 0, removeAt(dashboards, dIndex))

ReorderPanel(dIndex, newOrder) ==
    LET dashboards == tree.dashboards
    IN  IF Len(dashboards) = 0 \/ dIndex >= Len(dashboards)
        THEN TreeFails("ReorderPanel", dIndex, 0, 0, ErrInvalidParam)
        ELSE IF Len(dashboards[dIndex + 1].Panels) # Len(newOrder)
        THEN TreeFails("ReorderPanel", dIndex, 0, 0, "dashboard name or new order invalid")
        ELSE IF invalidOrder(newOrder)
        THEN TreeFails("ReorderPanel", dIndex, 0, 0, "dashboard new order invalid")
        ELSE SetDashboard("ReorderPanel", dIndex, 0, 0,
                 [dashboards EXCEPT ![dIndex + 1].Panels =
                     [i \in 1 .. Len(newOrder) |->
                         dashboards[dIndex + 1].Panels[newOrder[i] + 1]]])

AddPanel(dIndex) ==
    LET dashboards == tree.dashboards
    IN  IF Len(dashboards) = 0 \/ dIndex >= Len(dashboards)
        THEN TreeFails("AddPanel", dIndex, 0, 0, ErrInvalidParam)
        ELSE /\ Len(dashboards[dIndex + 1].Panels) < MaxPanels
             /\ SetDashboard("AddPanel", dIndex, 0, 0,
                    [dashboards EXCEPT ![dIndex + 1].Panels =
                        Append(@, [Title |-> "p", GraphType |-> "line",
                                   Targets |-> <<>>])])

UpdatePanel(dIndex, panelIndex, title, graphType) ==
    LET dashboards == tree.dashboards
    IN  IF \/ Len(dashboards) = 0
           \/ dIndex >= Len(dashboards)
           \/ Len(dashboards[dIndex + 1].Panels) <= panelIndex
        THEN TreeFails("UpdatePanel", dIndex, panelIndex, 0, ErrInvalidParam)
        ELSE LET old == dashboards[dIndex + 1].Panels[panelIndex + 1]
                 panel == [old EXCEPT !.Title = IF title # "" THEN title ELSE @,
                                      !.GraphType = IF graphType # "" THEN graphType
                                                    ELSE @]
             IN  SetDashboard("UpdatePanel", dIndex, panelIndex, 0,
                     [dashboards EXCEPT ![dIndex + 1].Panels[panelIndex + 1] = panel])

RemovePanel(dIndex, panelIndex) ==
    LET dashboards == tree.dashboards
    IN  IF \/ Len(dashboards) = 0
           \/ dIndex >= Len(dashboards)
           \/ panelIndex >= Len(dashboards[dIndex + 1].Panels)
        THEN TreeFails("RemovePanel", dIndex, panelIndex, 0, ErrInvalidParam)
        ELSE SetDashboard("RemovePanel", dIndex, panelIndex, 0,
                 [dashboards EXCEPT ![dIndex + 1].Panels = removeAt(@, panelIndex)])

AppendTarget(dIndex, panelIndex, target) ==
    LET dashboards == tree.dashboards
    IN  IF \/ Len(dashboards) = 0
           \/ dIndex >= Len(dashboards)
           \/ panelIndex >= Len(dashboards[dIndex + 1].Panels)
        THEN TreeFails("AppendTarget", dIndex, panelIndex, 0, ErrInvalidParam)
        ELSE /\ Len(dashboards[dIndex + 1].Panels[panelIndex + 1].Targets) < MaxTargets
             /\ SetDashboard("AppendTarget", dIndex, panelIndex, 0,
                    [dashboards EXCEPT
                        ![dIndex + 1].Panels[panelIndex + 1].Targets = Append(@, target)])

UpdateTarget(dIndex, panelIndex, targetIndex, target) ==
    LET dashboards == tree.dashboards
    IN  IF \/ Len(dashboards) = 0
           \/ dIndex >= Len(dashboards)
           \/ panelIndex >= Len(dashboards[dIndex + 1].Panels)
           \/ targetIndex >= Len(dashboards[dIndex + 1].Panels[panelIndex + 1].Targets)
        THEN TreeFails("UpdateTarget", dIndex, panelIndex, targetIndex, ErrInvalidParam)
        ELSE SetDashboard("UpdateTarget", dIndex, panelIndex, targetIndex,
                 [dashboards EXCEPT
                     ![dIndex + 1].Panels[panelIndex + 1].Targets[targetIndex + 1] = target])

RemoveTarget(dIndex, panelIndex, targetIndex) ==
    LET dashboards == tree.dashboards
    IN  IF \/ Len(dashboards) = 0
           \/ dIndex >= Len(dashboards)
           \/ panelIndex >= Len(dashboards[dIndex + 1].Panels)
           \/ targetIndex >= Len(dashboards[dIndex + 1].Panels[panelIndex + 1].Targets)
        THEN TreeFails("RemoveTarget", dIndex, panelIndex, targetIndex, ErrInvalidParam)
        ELSE SetDashboard("RemoveTarget", dIndex, panelIndex, targetIndex,
                 [dashboards EXCEPT
                     ![dIndex + 1].Panels[panelIndex + 1].Targets = removeAt(@, targetIndex)])

NextTree ==
    \/ AddDashboard
    \/ \E dIndex \in Indexes :
        \/ UpdateDashboard(dIndex)
        \/ RemoveDashboard(dIndex)
        \/ \E newOrder \in NewOrders : ReorderPanel(dIndex, newOrder)
        \/ AddPanel(dIndex)
        \/ \E panelIndex \in Indexes :
            \/ \E u \in PanelUpdates : UpdatePanel(dIndex, panelIndex, u[1], u[2])
            \/ RemovePanel(dIndex, panelIndex)
            \/ \E target \in Targets : AppendTarget(dIndex, panelIndex, target)
            \/ \E targetIndex \in Indexes :
                \/ \E target \in Targets :
                      UpdateTarget(dIndex, panelIndex, targetIndex, target)
                \/ RemoveTarget(dIndex, panelIndex, targetIndex)

SpecTree == Init /\ [][NextTree]_vars

DashboardMutations == {"UpdateDashboard", "RemoveDashboard"}
PanelListMutations == {"ReorderPanel", "AddPanel"}
PanelMutations == {"UpdatePanel", "RemovePanel", "AppendTarget"}
TargetMutations == {"UpdateTarget", "RemoveTarget"}

\* The call r was made on the list before with a dashboard index, a panel
\* index or a target index that is not below the length of its list.
OutOfRange(before, r) ==
    \/ /\ r.op \in DashboardMutations \cup PanelListMutations \cup PanelMutations
                    \cup TargetMutations
       /\ r.dIndex >= Len(before)
    \/ /\ r.op \in PanelMutations \cup TargetMutations
       /\ r.dIndex < Len(before)
       /\ r.panelIndex >= Len(before[r.dIndex + 1].Panels)
    \/ /\ r.op \in TargetMutations
       /\ r.dIndex < Len(before)
       /\ r.panelIndex < Len(before[r.dIndex + 1].Panels)
       /\ r.targetIndex >= Len(before[r.dIndex + 1].Panels[r.panelIndex + 1].Targets)

\* A dashboard method has been called and has returned.
TreeCall == tree' # tree

\* A mutation called with an index out of range writes nothing to the store.
OutOfRangeWritesNothing ==
    [][(TreeCall /\ OutOfRange(tree.dashboards, tree'.ret)) =>
          (~tree'.ret.wrote /\ tree'.dashboards = tree.dashboards)]_vars

\* Every mutation but RemoveDashboard returns an error for an index out of
\* range.
OthersReturnError ==
    [][(TreeCall /\ OutOfRange(tree.dashboards, tree'.ret)
          /\ tree'.ret.op # "RemoveDashboard") => tree'.ret.err # Nil]_vars

\* C35: every dashboard mutation of the tree layer called with a dashboard,
\* panel or target index greater than or equal to the length of the
\* corresponding list returns a non-nil error and writes nothing to the store.
C35_OutOfRangeRejected ==
    [][(TreeCall /\ OutOfRange(tree.dashboards, tree'.ret)) =>
          /\ tree'.ret.err # Nil
          /\ ~tree'.ret.wrote
          /\ tree'.dashboards = tree.dashboards]_vars
====
